---- MODULE Spec2Model ----
(***************************************************************************)
(* Model of the autonomous vault manager (AVM): the cycle orchestrator of  *)
(* internal/avm/avm.go with the persistent cycle counter and the snapshot  *)
(* table of internal/state, the vault executor of internal/vault/live.go   *)
(* and the action planner of internal/planner/planner.go.                  *)
(***************************************************************************)
EXTENDS Integers, Sequences, FiniteSets, Bags, TLC

\* ------------------------------------------------------------------------
\* Bounds of the exploration
\* ------------------------------------------------------------------------
MaxCycles == 2       \* RunCycle invocations explored
MaxRestarts == 1     \* process restarts explored
EnvNumbers == {0, 1}  \* numbers the environment supplies: time.Now().Unix() % 1000000 and the
                     \* argument of ResetCycleNumber
VaultUnits == 1      \* value units held by the vault (liquid USDC + LP positions)
MaxShares == 2       \* LP shares of a position handed to the planner, in hundreds, at most
MaxLiquid == 2       \* liquid USDC handed to the planner, in dollars, at most

maxRetries == 20     \* of findViableSwapAmount

Pools == {1, 2}

VARIABLES
    pc,          \* position of the RunLoop goroutine (RunLoop / RunCycle step)
    tick,        \* a tick is buffered in ticker.C
    cancelled,   \* ctx.Done() is closed
    counter,     \* cycle_counter.current_cycle (database, survives restarts)
    snapshots,   \* the rows of cycle_snapshots as a bag of their cycle_number column
                 \* (database); the row last handed to the INSERT is snap
    snap,        \* the cycleSnapshot local of the running RunCycle
    plan,        \* withdrawalActions / depositActions locals of RunCycle
    vault,       \* on-chain vault state: liquid USDC and LP positions
    inProgress,  \* number of RunCycle invocations that have not returned
    started,     \* number of RunCycle invocations so far (AVM.cycleCount, summed over restarts)
    restarts,    \* number of process restarts so far
    lastNumber,  \* the cycle number getCycleNumber returned last (-1: none yet)
    earlierMax,  \* the largest cycle number returned before that one (-1: none)
    hist,        \* what the running cycle did: increments, saves, failure, executor calls
    \* --- one call of planner.GenerateActionPlan ---
    ppc,                   \* position inside GenerateActionPlan
    pin,                   \* its arguments
    highLevelWithdrawals,  \* ExtendedActions still to be processed by processWithdrawals
    highLevelDeposits,     \* ExtendedActions still to be processed by processDeposits
    simulatedLiquidUSDC,   \* the planner's running liquid USDC (cents)
    tempNonUSDCAssets,     \* non-USDC amounts received by simulated exits, per denom
    swapTry,               \* the denoms processConsolidation has still to visit, the
                           \* denom being searched ("": none), currentAmount and retry
                           \* of findViableSwapAmount
    withdrawalActions,     \* SubActions of the withdrawal/consolidation phase
    depositActions,        \* SubActions of the deposit phase
    ret,                   \* what GenerateActionPlan returned
    simErrs,               \* the simulator calls that returned an error during the call
    \* --- one conversion of a SubAction into a chain message (wallet) ---
    subAction,             \* the SubAction handed to the TransactionBuilder
    chainMsg,              \* the minimum outputs of the message built from it
    \* --- the scoring_parameters table and the calls of SaveScoringParameters ---
    paramRows,             \* committed rows: params_id, config_name, version, is_active
    sessions,              \* the database transaction of each connection
    calls,                 \* number of SaveScoringParameters calls so far
    \* --- the process (main) ---
    avmMode,               \* the environment variable AVM_MODE of the running process
    vm,                    \* the VaultManager main has created ("none": not created)
    \* --- one run of SelectTopPools and DetermineTargetAllocations (analyzer) ---
    apc,                   \* position: select, validate, iterate, final, returned
    ain,                   \* scored pools, pools holding uelys, scoring parameters
    selection,             \* what SelectTopPools returned
    lockedAllocations,     \* pools whose allocation is finalized (-1: not locked)
    unlockedPoolScores,    \* pools still being adjusted
    allocations,           \* proportional allocation of each pool, as a fraction
    iteration,             \* iterations of the constraint loop so far
    aret,                  \* what DetermineTargetAllocations returned
    \* --- one call of analyzer.CalculateVolatility ---
    vpc,                   \* position: idle, call, returned
    prices,                \* the caller's slice of PriceData handed to the call
    vin,                   \* the contents of that slice when the call was made
    vret,                  \* what CalculateVolatility returned
    \* --- repeated calls of planner.GenerateActionPlan ---
    replay,                \* what the earlier calls with the same arguments returned
    \* --- one call of VaultClient.waitForTransactionInclusion ---
    poll,                  \* position, attempt, last delay, time slept, last answer, result
    \* --- SaveScoringParameters and LoadActiveScoringParameters, one after another ---
    table,                 \* the committed rows of scoring_parameters, with their columns
    saved,                 \* the arguments of the successful saves, oldest first
    loaded                 \* the last call of LoadActiveScoringParameters and its result

ovars == <<pc, tick, cancelled, counter, snapshots, snap, plan,
           vault, inProgress, started, restarts, lastNumber, earlierMax, hist>>

pvars == <<ppc, pin, highLevelWithdrawals, highLevelDeposits, simulatedLiquidUSDC,
           tempNonUSDCAssets, swapTry, withdrawalActions, depositActions, ret, simErrs>>

wvars == <<subAction, chainMsg>>

\* the variables outside the orchestrator and the planner
dvars == <<paramRows, sessions, calls>>

mvars == <<avmMode, vm>>

avars == <<apc, ain, selection, lockedAllocations, unlockedPoolScores, allocations,
           iteration, aret>>

volvars == <<vpc, prices, vin, vret>>

\* the parameter store used by one caller at a time
lvars == <<table, saved, loaded>>

uvars == <<volvars, replay, poll, lvars>>

tvars == <<wvars, dvars, mvars, avars, uvars>>

vars == <<ovars, pvars, tvars>>

\* ------------------------------------------------------------------------
\* Helpers
\* ------------------------------------------------------------------------
RECURSIVE SumOver(_, _)
SumOver(f, S) == IF S = {} THEN 0
                 ELSE LET x == CHOOSE y \in S : TRUE
                      IN f[x] + SumOver(f, S \ {x})

Abs(x) == IF x < 0 THEN -x ELSE x

RECURSIVE SetToSeq(_)
SetToSeq(S) == IF S = {} THEN <<>>
               ELSE LET m == CHOOSE x \in S : \A y \in S : x <= y
                    IN <<m>> \o SetToSeq(S \ {m})

\* GetTotalVaultValue: liquid USDC plus the value of every position
TotalVaultValue(v) == v.liquid + SumOver(v.positions, Pools)

\* ------------------------------------------------------------------------
\* Snapshot construction (internal/avm/avm.go)
\* ------------------------------------------------------------------------
NoPositions == [p \in Pools |-> [value |-> 0, pct |-> 0]]
NoTargets == [p \in Pools |-> 0]

\* convertToPositionSnapshots: per position its value and its share of the total
convertToPositionSnapshots(positions, totalVaultValue) ==
    [p \in Pools |->
        [value |-> positions[p],
         pct   |-> IF totalVaultValue > 0
                   THEN (positions[p] * 100) \div totalVaultValue
                   ELSE 0]]

\* calculateAllocationEfficiency: 100 minus the absolute deviation summed over the pools
\* of the target map (a target of 0 stands for a pool that is not in the map), not below 0
calculateAllocationEfficiency(finalPositions, targetAllocations) ==
    IF \A p \in Pools : targetAllocations[p] = 0
    THEN 100
    ELSE LET diff == [p \in Pools |->
                         IF targetAllocations[p] = 0 THEN 0
                         ELSE Abs(targetAllocations[p] - finalPositions[p].pct)]
             eff  == 100 - SumOver(diff, Pools)
         IN IF eff < 0 THEN 0 ELSE eff

\* the cycleSnapshot literal at the top of RunCycle
NewSnapshot(n) ==
    [cycle_number |-> n,
     initial_value |-> 0, initial_liquid |-> 0, initial_positions |-> NoPositions,
     targets |-> NoTargets, actions |-> <<>>,
     final_value |-> 0, final_liquid |-> 0, final_positions |-> NoPositions,
     hashes |-> <<>>, receipts |-> <<>>,
     efficiency |-> 0, net_return |-> 0]

\* finalizeFailedSnapshot: a failed execution records the initial state as final
finalizeFailedSnapshotStale(s, totalVaultValue, liquidUSDC, positions) ==
    [s EXCEPT !.final_value = totalVaultValue,
              !.final_positions = convertToPositionSnapshots(positions, totalVaultValue),
              !.net_return = 0]

finalizeFailedSnapshot(s, totalVaultValue, liquidUSDC, positions) ==
    [s EXCEPT !.final_value = totalVaultValue,
              !.final_liquid = liquidUSDC,
              !.final_positions = convertToPositionSnapshots(positions, totalVaultValue),
              !.efficiency = 0,
              !.net_return = 0]

\* the non-USDC denoms simulated exits can return
Denoms == {"uatom", "uelys"}

\* an empty tempNonUSDCAssets map (0: the denom is not in the map)
NoAssets == [d \in Denoms |-> 0]

NoSwapTry == [denom |-> "", amount |-> 0, retry |-> 0, todo |-> {}]

NoHist == [incs |-> 0, saves |-> 0, saveErr |-> FALSE, failed |-> "none", calls |-> <<>>]

\* no call of the planner is being followed
PlannerIdle ==
    /\ ppc = "idle"
    /\ pin = <<>>
    /\ highLevelWithdrawals = {}
    /\ highLevelDeposits = {}
    /\ simulatedLiquidUSDC = 0
    /\ tempNonUSDCAssets = NoAssets
    /\ swapTry = NoSwapTry
    /\ withdrawalActions = <<>>
    /\ depositActions = <<>>
    /\ ret = <<>>
    /\ simErrs = {}

\* no SubAction is being converted
WalletIdle ==
    /\ subAction = <<>>
    /\ chainMsg = <<>>

\* database connections that can run SaveScoringParameters at the same time
Connections == {1, 2}

NoSession == [pc |-> "idle", configName |-> "", version |-> 0, makeActive |-> FALSE,
              paramsID |-> 0, targets |-> {}, deactivated |-> {}, err |-> FALSE,
              activeAfter |-> {}]

\* an empty scoring_parameters table, no call of SaveScoringParameters
ParametersIdle ==
    /\ paramRows = {}
    /\ sessions = [c \in Connections |-> NoSession]
    /\ calls = 0

\* main has passed its safety switch and created the live vault manager
ProcessRunning ==
    /\ avmMode = "live"
    /\ vm = "live"

\* no run of the analyzer is being followed
AnalyzerIdle ==
    /\ apc = "idle"
    /\ ain = <<>>
    /\ selection = <<>>
    /\ lockedAllocations = <<>>
    /\ unlockedPoolScores = {}
    /\ allocations = <<>>
    /\ iteration = 0
    /\ aret = <<>>

\* no call of CalculateVolatility is being followed
VolatilityIdle ==
    /\ vpc = "idle"
    /\ prices = <<>>
    /\ vin = <<>>
    /\ vret = <<>>

\* no call of waitForTransactionInclusion is being followed
PollIdle == poll = [pc |-> "idle", txHash |-> "", attempt |-> 0, delay |-> 0,
                    queries |-> 0, answer |-> "", result |-> ""]

\* no save or load of the parameter store is being followed
StoreIdle ==
    /\ table = {}
    /\ saved = <<>>
    /\ loaded = <<>>

UtilitiesIdle == VolatilityIdle /\ replay = <<>> /\ PollIdle /\ StoreIdle

\* nothing outside the orchestrator and the planner is being followed
ToolsIdle == WalletIdle /\ ParametersIdle /\ ProcessRunning /\ AnalyzerIdle /\ UtilitiesIdle

InitOrchestrator ==
    /\ pc = "first"
    /\ tick = FALSE
    /\ cancelled = FALSE
    /\ counter = 0
    /\ snapshots = EmptyBag
    /\ snap = NewSnapshot(0)
    /\ plan = [W |-> <<>>, D |-> <<>>]
    /\ vault \in {v \in [liquid : 0..VaultUnits, positions : [Pools -> 0..VaultUnits]] :
                     TotalVaultValue(v) = VaultUnits}
    /\ inProgress = 0
    /\ started = 0
    /\ restarts = 0
    /\ lastNumber = -1
    /\ earlierMax = -1
    /\ hist = NoHist

Init == InitOrchestrator /\ PlannerIdle /\ ToolsIdle

\* ------------------------------------------------------------------------
\* Database operations (internal/state)
\* ------------------------------------------------------------------------
\* IncrementCycleNumber: UPDATE cycle_counter SET current_cycle = current_cycle + 1 RETURNING
IncrementCycleNumber(c) == c + 1

\* getCycleNumber: the incremented counter, or a timestamp-derived number when the update fails
getCycleNumber(c, dbOk, ts) == IF dbOk THEN IncrementCycleNumber(c) ELSE ts

\* SaveCycleSnapshot: a plain INSERT into cycle_snapshots (no uniqueness on cycle_number)
SaveCycleSnapshot(rows, s, dbOk) ==
    IF dbOk THEN rows (+) SetToBag({s.cycle_number}) ELSE rows

\* saveCycleSnapshot of the orchestrator: the insert, an error is only logged
saveCycleSnapshot(s, dbOk, h) ==
    /\ snapshots' = SaveCycleSnapshot(snapshots, s, dbOk)
    /\ snap' = s
    /\ hist' = [h EXCEPT !.saves = @ + (IF dbOk THEN 1 ELSE 0), !.saveErr = @ \/ ~dbOk]

\* ------------------------------------------------------------------------
\* Vault executor (internal/vault/live.go)
\* ------------------------------------------------------------------------
Withdraw(p) == [type |-> "WITHDRAW_LP", pool |-> p]
Deposit(p) == [type |-> "DEPOSIT_LP", pool |-> p]
Swap == [type |-> "SWAP", pool |-> 0]

\* ways a call of ExecuteActionPlan ends:
\*   "unsent"   an error before the broadcast (validation, connection, signing,
\*              message construction): no hash, an error
\*   "rejected" the broadcast response carries a non-zero code: hash and error
\*   "timeout"  the inclusion polling is exhausted, the transaction never ran: hash and error
\*   "late"     the inclusion polling is exhausted, the transaction ran afterwards
\*   "reverted" the transaction is found in a block with gas used and events, its
\*              execution failed (the code of the included transaction is not read): no error
\*   "ok"       the transaction is found in a block and its messages ran: no error
ExecOutcomes == {"unsent", "rejected", "timeout", "late", "reverted", "ok"}

\* the (TransactionResult, error) pair ExecuteActionPlan returns
ExecuteActionPlan(outcome, h) ==
    [TxHash  |-> IF outcome = "unsent" THEN <<>> ELSE h,
     Success |-> outcome \in {"reverted", "ok"},
     err     |-> outcome \notin {"reverted", "ok"}]

\* the messages of the transaction ran on the chain
Executed(outcome) == outcome \in {"late", "ok"}

\* effect of one included message on the vault: one unit leaves or enters a position
ApplyAction(v, a) ==
    IF a.type = "WITHDRAW_LP"
    THEN [liquid |-> v.liquid + 1, positions |-> [v.positions EXCEPT ![a.pool] = @ - 1]]
    ELSE IF a.type = "DEPOSIT_LP"
    THEN [liquid |-> v.liquid - 1, positions |-> [v.positions EXCEPT ![a.pool] = @ + 1]]
    ELSE v

CanApply(v, a) ==
    IF a.type = "WITHDRAW_LP" THEN v.positions[a.pool] > 0
    ELSE IF a.type = "DEPOSIT_LP" THEN v.liquid > 0
    ELSE TRUE

RECURSIVE ApplyAll(_, _)
ApplyAll(v, actions) ==
    IF actions = <<>> THEN v ELSE ApplyAll(ApplyAction(v, Head(actions)), Tail(actions))

RECURSIVE Feasible(_, _)
Feasible(v, actions) ==
    IF actions = <<>> THEN TRUE
    ELSE CanApply(v, Head(actions)) /\ Feasible(ApplyAction(v, Head(actions)), Tail(actions))

\* the vault after a call of ExecuteActionPlan: a transaction is atomic
VaultAfter(v, actions, outcome) == IF Executed(outcome) THEN ApplyAll(v, actions) ELSE v

\* ------------------------------------------------------------------------
\* RunLoop (internal/avm/avm.go)
\* ------------------------------------------------------------------------
\* a loop that would run each cycle in a goroutine of its own: a tick is taken at any time
LoopReadyAsync == pc \notin {"main", "halted", "first", "stopped"}

\* the for/select of RunLoop: a new cycle is taken up only from the select statement
LoopReady == pc = "select"

EnterRunCycle ==
    /\ pc' = "init"
    /\ inProgress' = inProgress + 1
    /\ started' = started + 1
    /\ hist' = NoHist

\* "Run first cycle immediately"
StartFirstCycle ==
    /\ pc = "first"
    /\ started < MaxCycles
    /\ EnterRunCycle
    /\ UNCHANGED <<tick, cancelled, counter, snapshots, snap, plan, vault, restarts,
                   lastNumber, earlierMax>>
    /\ UNCHANGED <<pvars, tvars>>

\* case <-ticker.C
StartTickCycle ==
    /\ LoopReady
    /\ tick
    /\ started < MaxCycles
    /\ tick' = FALSE
    /\ EnterRunCycle
    /\ UNCHANGED <<cancelled, counter, snapshots, snap, plan, vault, restarts,
                   lastNumber, earlierMax>>
    /\ UNCHANGED <<pvars, tvars>>

\* case <-ctx.Done()
LoopCtxDone ==
    /\ pc = "select"
    /\ cancelled
    /\ pc' = "stopped"
    /\ UNCHANGED <<tick, cancelled, counter, snapshots, snap, plan, vault,
                   inProgress, started, restarts, lastNumber, earlierMax, hist>>
    /\ UNCHANGED <<pvars, tvars>>

\* the ticker goroutine: ticker.C buffers one tick, further ticks are dropped. Only the
\* select of RunLoop reads the channel, so a tick that arrives while RunCycle runs is
\* placed at the end of the cycle, before RunCycle returns.
Tick ==
    /\ pc \in {"done", "select"}
    /\ ~tick
    /\ tick' = TRUE
    /\ UNCHANGED <<pc, cancelled, counter, snapshots, snap, plan, vault,
                   inProgress, started, restarts, lastNumber, earlierMax, hist>>
    /\ UNCHANGED <<pvars, tvars>>

\* the context handed to RunLoop is cancelled
Cancel ==
    /\ ~cancelled
    /\ pc # "stopped"
    /\ cancelled' = TRUE
    /\ UNCHANGED <<pc, tick, counter, snapshots, snap, plan, vault,
                   inProgress, started, restarts, lastNumber, earlierMax, hist>>
    /\ UNCHANGED <<pvars, tvars>>

\* RunCycle returns to RunLoop: its locals are gone
CycleReturn ==
    /\ pc = "done"
    /\ pc' = "select"
    /\ inProgress' = inProgress - 1
    /\ snap' = NewSnapshot(0)
    /\ plan' = [W |-> <<>>, D |-> <<>>]
    /\ hist' = NoHist
    /\ UNCHANGED <<tick, cancelled, counter, snapshots, vault,
                   started, restarts, lastNumber, earlierMax>>
    /\ UNCHANGED <<pvars, tvars>>

\* values of the environment variable AVM_MODE: live, unset, and a near miss
AvmModes == {"live", "", "LIVE"}

\* a safety switch that compares without regard to case
LiveModeAnyCase(mode) == mode \in {"live", "LIVE"}

\* `if avmMode == "live"`
LiveMode(mode) == mode = "live"

\* the process is killed and started again, with any environment: memory is lost, the
\* database and the chain stay
Restart ==
    /\ restarts < MaxRestarts
    /\ restarts' = restarts + 1
    /\ pc' = "main"
    /\ avmMode' \in AvmModes
    /\ vm' = "none"
    /\ tick' = FALSE
    /\ cancelled' = FALSE
    /\ inProgress' = 0
    /\ snap' = NewSnapshot(0)
    /\ plan' = [W |-> <<>>, D |-> <<>>]
    /\ hist' = NoHist
    /\ UNCHANGED <<counter, snapshots, vault, started, lastNumber, earlierMax>>
    /\ UNCHANGED <<pvars, wvars, dvars, avars, uvars>>

\* main up to the call of RunLoop: in live mode the vault client is created and the
\* loop is entered, with any other value log.Fatal ends the process
Main ==
    /\ pc = "main"
    /\ IF LiveMode(avmMode)
       THEN vm' = "live" /\ pc' = "first"
       ELSE vm' = vm /\ pc' = "halted"
    /\ UNCHANGED <<tick, cancelled, counter, snapshots, snap, plan, vault, inProgress,
                   started, restarts, lastNumber, earlierMax, hist, avmMode>>
    /\ UNCHANGED <<pvars, wvars, dvars, avars, uvars>>

\* ResetCycleNumber: maintenance sets the counter to a given value (done here while
\* the service is not inside its loop)
ResetCycleNumber ==
    /\ pc = "first"
    /\ \E n \in EnvNumbers :
        /\ n # counter
        /\ counter' = n
    /\ UNCHANGED <<pc, tick, cancelled, snapshots, snap, plan, vault,
                   inProgress, started, restarts, lastNumber, earlierMax, hist>>
    /\ UNCHANGED <<pvars, tvars>>

\* ------------------------------------------------------------------------
\* RunCycle (internal/avm/avm.go)
\* ------------------------------------------------------------------------
\* "Cycle aborted": an error is logged and RunCycle returns
Abort(step) ==
    /\ pc' = "done"
    /\ hist' = [hist EXCEPT !.failed = step]
    /\ UNCHANGED <<tick, cancelled, counter, snapshots, snap, plan, vault,
                   inProgress, started, restarts, lastNumber, earlierMax>>

\* the cycleSnapshot literal: getCycleNumber is called here, before step 1
InitSnapshot ==
    /\ pc = "init"
    /\ \E dbOk \in BOOLEAN, ts \in EnvNumbers :
        LET n == getCycleNumber(counter, dbOk, ts)
        IN /\ counter' = IF dbOk THEN n ELSE counter
           /\ snap' = NewSnapshot(n)
           /\ lastNumber' = n
           /\ earlierMax' = IF lastNumber > earlierMax THEN lastNumber ELSE earlierMax
           /\ hist' = [hist EXCEPT !.incs = @ + (IF dbOk THEN 1 ELSE 0)]
    /\ pc' = "fetch"
    /\ plan' = [W |-> <<>>, D |-> <<>>]
    /\ UNCHANGED <<tick, cancelled, snapshots, vault, inProgress, started, restarts>>
    /\ UNCHANGED <<pvars, tvars>>

\* Step 1: GetTradableDenoms, GetPools, GetTokens
FetchData ==
    /\ pc = "fetch"
    /\ \E ok \in BOOLEAN :
        IF ok
        THEN /\ pc' = "vault"
             /\ UNCHANGED <<tick, cancelled, counter, snapshots, snap, plan, vault,
                            inProgress, started, restarts, lastNumber, earlierMax, hist>>
        ELSE Abort("fetch")
    /\ UNCHANGED <<pvars, tvars>>

\* Step 2: GetPoolPositions, GetLiquidUSDC, GetTotalVaultValue, initial snapshot state
ReadVaultState ==
    /\ pc = "vault"
    /\ \E ok \in BOOLEAN :
        IF ok
        THEN /\ pc' = "score"
             /\ snap' = [snap EXCEPT
                    !.initial_value = TotalVaultValue(vault),
                    !.initial_liquid = vault.liquid,
                    !.initial_positions =
                        convertToPositionSnapshots(vault.positions, TotalVaultValue(vault))]
             /\ UNCHANGED <<tick, cancelled, counter, snapshots, plan, vault,
                            inProgress, started, restarts, lastNumber, earlierMax, hist>>
        ELSE Abort("vault")
    /\ UNCHANGED <<pvars, tvars>>

\* a no-action cycle recorded the way a failed execution is: efficiency 0
NoActionSnapshotAsFailure(s, eff) ==
    [s EXCEPT !.final_value = s.initial_value,
              !.final_liquid = s.initial_liquid,
              !.final_positions = s.initial_positions,
              !.efficiency = 0,
              !.net_return = 0]

\* the snapshot of a cycle that needs no action: final state = initial state
NoActionSnapshot(s, eff) ==
    [s EXCEPT !.final_value = s.initial_value,
              !.final_liquid = s.initial_liquid,
              !.final_positions = s.initial_positions,
              !.efficiency = eff,
              !.net_return = 0]

\* Step 3, first half: CalculatePoolScores and SelectTopPools
ScoreAndSelect ==
    /\ pc = "score"
    /\ \E out \in {"scoreErr", "selectErr", "empty", "selected"} :
        CASE out = "scoreErr" -> Abort("score")
          [] out = "selectErr" -> Abort("select")
          [] out = "empty" ->
                /\ \E dbOk \in BOOLEAN :
                     saveCycleSnapshot(NoActionSnapshot([snap EXCEPT !.targets = NoTargets], 100),
                                       dbOk, hist)
                /\ pc' = "done"
                /\ UNCHANGED <<tick, cancelled, counter, plan, vault,
                               inProgress, started, restarts, lastNumber, earlierMax>>
          [] out = "selected" ->
                /\ pc' = "alloc"
                /\ UNCHANGED <<tick, cancelled, counter, snapshots, snap, plan,
                               vault, inProgress, started, restarts, lastNumber, earlierMax, hist>>
    /\ UNCHANGED <<pvars, tvars>>

\* allocation maps DetermineTargetAllocations can return (percent per pool, summing to 100)
TargetChoices == {t \in [Pools -> {0, 50, 100}] : SumOver(t, Pools) = 100}

\* Step 3, second half: DetermineTargetAllocations
Allocate ==
    /\ pc = "alloc"
    /\ \/ Abort("alloc")
       \/ /\ \E t \in TargetChoices : snap' = [snap EXCEPT !.targets = t]
          /\ pc' = "plan"
          /\ UNCHANGED <<tick, cancelled, counter, snapshots, plan, vault,
                         inProgress, started, restarts, lastNumber, earlierMax, hist>>
    /\ UNCHANGED <<pvars, tvars>>

\* the plans GenerateActionPlan can return to the orchestrator: withdrawals from pools
\* above target (with an optional consolidation swap), deposits into pools below target;
\* any of them may be skipped by the planner
PlanChoices(s) ==
    LET over  == {p \in Pools : s.initial_positions[p].pct > s.targets[p]
                                /\ s.initial_positions[p].value > 0}
        under == {p \in Pools : s.initial_positions[p].pct < s.targets[p]}
        ws == {SetToSeq(S) : S \in SUBSET over}
        W  == {[i \in DOMAIN w |-> Withdraw(w[i])] : w \in ws}
        WS == W \cup {Append(w, Swap) : w \in W \ {<<>>}}
        D  == {[i \in DOMAIN d |-> Deposit(d[i])] : d \in {SetToSeq(S) : S \in SUBSET under}}
    IN {[W |-> w, D |-> d] : w \in WS, d \in D}

\* Step 4: GenerateActionPlan; an empty plan ends the cycle with a no-action snapshot
Plan ==
    /\ pc = "plan"
    /\ \/ Abort("plan")
       \/ \E pl \in PlanChoices(snap) :
            LET s == [snap EXCEPT !.actions = pl.W \o pl.D]
            IN IF pl.W = <<>> /\ pl.D = <<>>
               THEN /\ \E dbOk \in BOOLEAN :
                        saveCycleSnapshot(
                            NoActionSnapshot(s,
                                calculateAllocationEfficiency(s.initial_positions, s.targets)),
                            dbOk, hist)
                    /\ pc' = "done"
                    /\ plan' = pl
                    /\ UNCHANGED <<tick, cancelled, counter, vault,
                                   inProgress, started, restarts, lastNumber, earlierMax>>
               ELSE /\ snap' = s
                    /\ plan' = pl
                    /\ pc' = "execW"
                    /\ UNCHANGED <<tick, cancelled, counter, snapshots, vault,
                                   inProgress, started, restarts, lastNumber, earlierMax, hist>>
    /\ UNCHANGED <<pvars, tvars>>

\* the positions slice a position snapshot was built from
RawPositions(ps) == [p \in Pools |-> ps[p].value]

\* the receipts appended after a phase went through, one per action
Receipts(actions, msg) ==
    [i \in DOMAIN actions |-> [action |-> actions[i], success |-> TRUE, message |-> msg]]

\* `if err != nil` after a.vault.ExecuteActionPlan: the phase failed, the cycle ends
PhaseFailed(res) == res.err

\* one execution phase: ExecuteActionPlan, then either the failure snapshot and return,
\* or the hash and the receipts are added to the snapshot and the cycle goes on
ExecutePhase(phase, actions, msg, nextpc) ==
    \E out \in ExecOutcomes :
        LET res == ExecuteActionPlan(out, <<started, phase>>)
            h   == [hist EXCEPT !.calls =
                        Append(@, [phase |-> phase, err |-> res.err, hash |-> res.TxHash,
                                   executed |-> Executed(out)])]
        IN /\ (Executed(out) => Feasible(vault, actions))
           /\ vault' = VaultAfter(vault, actions, out)
           /\ IF PhaseFailed(res)
              THEN /\ \E dbOk \in BOOLEAN :
                        saveCycleSnapshot(
                            finalizeFailedSnapshot(snap, snap.initial_value, snap.initial_liquid,
                                                   RawPositions(snap.initial_positions)),
                            dbOk, [h EXCEPT !.failed = phase])
                   /\ pc' = "done"
              ELSE /\ snap' = [snap EXCEPT !.hashes = Append(@, res.TxHash),
                                           !.receipts = @ \o Receipts(actions, msg)]
                   /\ hist' = h
                   /\ pc' = nextpc
                   /\ UNCHANGED snapshots

\* Step 5, withdrawal/consolidation phase
ExecWithdraw ==
    /\ pc = "execW"
    /\ IF Len(plan.W) > 0
       THEN ExecutePhase("W", plan.W, "Withdrawal executed successfully", "execD")
       ELSE /\ pc' = "execD"
            /\ UNCHANGED <<snapshots, snap, vault, hist>>
    /\ UNCHANGED <<tick, cancelled, counter, plan, inProgress, started,
                   restarts, lastNumber, earlierMax>>
    /\ UNCHANGED <<pvars, tvars>>

\* Step 5, deposit phase
ExecDeposit ==
    /\ pc = "execD"
    /\ IF Len(plan.D) > 0
       THEN ExecutePhase("D", plan.D, "Deposit executed successfully", "final")
       ELSE /\ pc' = "final"
            /\ UNCHANGED <<snapshots, snap, vault, hist>>
    /\ UNCHANGED <<tick, cancelled, counter, plan, inProgress, started,
                   restarts, lastNumber, earlierMax>>
    /\ UNCHANGED <<pvars, tvars>>

\* Step 6: read the final state (a failed read falls back to the initial value),
\* compute the metrics, save the snapshot
Finalize ==
    /\ pc = "final"
    /\ \E okL \in BOOLEAN, okP \in BOOLEAN, okT \in BOOLEAN, dbOk \in BOOLEAN :
        LET finalLiquidUSDC == IF okL THEN vault.liquid ELSE snap.initial_liquid
            finalPositions  == IF okP THEN vault.positions
                               ELSE RawPositions(snap.initial_positions)
            finalTotalValue == IF okT THEN TotalVaultValue(vault) ELSE snap.initial_value
            fps == convertToPositionSnapshots(finalPositions, finalTotalValue)
        IN saveCycleSnapshot(
               [snap EXCEPT !.final_value = finalTotalValue,
                            !.final_liquid = finalLiquidUSDC,
                            !.final_positions = fps,
                            !.efficiency = calculateAllocationEfficiency(fps, snap.targets),
                            !.net_return = finalTotalValue - snap.initial_value],
               dbOk, hist)
    /\ pc' = "done"
    /\ UNCHANGED <<tick, cancelled, counter, plan, vault, inProgress, started,
                   restarts, lastNumber, earlierMax>>
    /\ UNCHANGED <<pvars, tvars>>

Next ==
    \/ StartFirstCycle
    \/ StartTickCycle
    \/ LoopCtxDone
    \/ Tick
    \/ Cancel
    \/ CycleReturn
    \/ Restart
    \/ Main
    \/ ResetCycleNumber
    \/ InitSnapshot
    \/ FetchData
    \/ ReadVaultState
    \/ ScoreAndSelect
    \/ Allocate
    \/ Plan
    \/ ExecWithdraw
    \/ ExecDeposit
    \/ Finalize

Spec == Init /\ [][Next]_vars

\* ------------------------------------------------------------------------
\* planner.GenerateActionPlan (internal/planner/planner.go)
\* Money is counted in cents, token amounts in base units.
\* ------------------------------------------------------------------------
\* poolsData: TVL (cents) and total LP shares of each pool
PoolsData ==
    [p \in Pools |-> [TvlUSD |-> 400 * p, TotalShares |-> 400, IsSmartShielded |-> p = 2]]

\* value of LP shares at the pool's TVL per share
ShareValue(p, shares) == (shares * PoolsData[p].TvlUSD) \div PoolsData[p].TotalShares

\* a node behind rpcEndpoint whose answers may differ from query to query
AnySimulator ==
    [deterministic |-> FALSE, exit |-> "usdc", swapSlippage |-> 0, joinSlippage |-> 0]

\* scoringParams: percent values, cents, reduction factors as fractions
ParamChoices ==
    [RebalanceThresholdAmount     : {5},
     MaxRebalancePercentPerCycle  : {50, 100},
     MinLiquidUSDCBuffer          : {100},
     NormalPoolSlippagePercent    : {1},
     SmartShieldSlippagePercent   : {2},
     ViableSwapReductionFactor    : {[num |-> 1, den |-> 2], [num |-> 1, den |-> 1]},
     ViableDepositReductionFactor : {[num |-> 1, den |-> 2]}]

\* the arguments of a call: positions by LP shares with their estimated value, liquid
\* USDC, target allocations (percent, summing to 100), total vault value, parameters,
\* the node the simulations are run against
PlannerInputs ==
    {[currentPositions   |-> [p \in Pools |-> [LPShares |-> 100 * sh[p],
                                               EstimatedValue |-> ShareValue(p, 100 * sh[p])]],
      initialLiquidUSDC  |-> 100 * liq,
      targetAllocations  |-> t,
      totalVaultValueUSD |->
          100 * liq + SumOver([p \in Pools |-> ShareValue(p, 100 * sh[p])], Pools),
      scoringParams      |-> prm,
      rpcEndpoint        |-> AnySimulator] :
        sh \in [Pools -> 0..MaxShares], liq \in 0..MaxLiquid, t \in TargetChoices,
        prm \in ParamChoices}

\* fmt.Sprintf("%f", x) of x = num/den: six decimals, rounded to nearest (in millionths)
SprintfF(num, den) ==
    LET q == (num * 1000000) \div den
        r == (num * 1000000) % den
    IN IF 2 * r >= den THEN q + 1 ELSE q

\* calculateTargetShares: targetUSD / TvlUSD printed with %f, times TotalShares, truncated
calculateTargetShares(targetUSD, poolID) ==
    IF targetUSD <= 0 THEN 0
    ELSE (SprintfF(targetUSD, PoolsData[poolID].TvlUSD) * PoolsData[poolID].TotalShares)
             \div 1000000

\* the ExtendedAction analyzeRequiredChanges computes for one pool, with the side it is
\* appended to ("W", "D" or "none": within the threshold)
RequiredChange(in, poolID) ==
    LET currentUSD == in.currentPositions[poolID].EstimatedValue
        targetUSD  == (in.totalVaultValueUSD * in.targetAllocations[poolID]) \div 100
        deltaUSD   == targetUSD - currentUSD
        thr        == in.scoringParams.RebalanceThresholdAmount
        \* deltaPercentage < -thr, deltaPercentage > thr, without dividing
        below == IF targetUSD > 0 THEN deltaUSD * 100 < -(thr * targetUSD)
                 ELSE currentUSD > 0 /\ -100 < -thr
        above == IF targetUSD > 0 THEN deltaUSD * 100 > thr * targetUSD ELSE FALSE
    IN [side |-> IF below THEN "W" ELSE IF above THEN "D" ELSE "none",
        action |-> [PoolID |-> poolID, DeltaUSD |-> deltaUSD,
                    TargetLPShares |-> calculateTargetShares(targetUSD, poolID)]]

analyzeRequiredChanges(in, side) ==
    {RequiredChange(in, p).action : p \in {q \in Pools : RequiredChange(in, q).side = side}}

RECURSIVE SumAbsDelta(_)
SumAbsDelta(actions) ==
    IF actions = {} THEN 0
    ELSE LET a == CHOOSE x \in actions : TRUE
         IN Abs(a.DeltaUSD) + SumAbsDelta(actions \ {a})

\* maxWithdrawalUSD of applyRebalancingLimits
MaxWithdrawalUSD(in) ==
    (in.totalVaultValueUSD * in.scoringParams.MaxRebalancePercentPerCycle) \div 100

\* applyRebalancingLimits: over the cap every DeltaUSD is multiplied by cap/total,
\* TargetLPShares is copied as it is
applyRebalancingLimits(withdrawals, in) ==
    LET maxWithdrawalUSD   == MaxWithdrawalUSD(in)
        totalWithdrawalUSD == SumAbsDelta(withdrawals)
    IN IF totalWithdrawalUSD <= maxWithdrawalUSD THEN withdrawals
       ELSE {[PoolID |-> w.PoolID,
              DeltaUSD |-> -((Abs(w.DeltaUSD) * maxWithdrawalUSD) \div totalWithdrawalUSD),
              TargetLPShares |-> w.TargetLPShares] : w \in withdrawals}

\* utils.Float64ToSDKInt / utils.SDKIntToFloat64 at the precision of USDC (6): cents
\* to base units and back, truncating
Float64ToSDKInt(cents) == cents * 10000
SDKIntToFloat64(amount) == amount \div 10000

\* getSlippageLimit, in percent
getSlippageLimit(poolID, scoringParams) ==
    IF PoolsData[poolID].IsSmartShielded THEN scoringParams.SmartShieldSlippagePercent
    ELSE scoringParams.NormalPoolSlippagePercent

\* slippage values (percent) a simulation can report
SlippageChoices == {0, 3}

\* the non-USDC token of a pool that is paired with USDC
OtherDenom(poolID) == IF poolID = 1 THEN "uatom" ELSE "uelys"

\* what simulations.SimulateLeavePool can answer for an exit of pool `poolID` worth
\* `value` cents: an error, or the amounts out with a slippage: USDC only, USDC and
\* the other token of the pool, or two non-USDC tokens
ExitEstimations(poolID, value) ==
    {[err |-> TRUE, usdc |-> 0, other |-> NoAssets, slippage |-> 0]}
    \cup {[err |-> FALSE, usdc |-> Float64ToSDKInt((value * (100 - sl)) \div 100),
           other |-> NoAssets, slippage |-> sl] : sl \in SlippageChoices}
    \cup {[err |-> FALSE, usdc |-> Float64ToSDKInt(value \div 2),
           other |-> [NoAssets EXCEPT ![OtherDenom(poolID)] = 2], slippage |-> 0]}
    \cup {[err |-> FALSE, usdc |-> 0,
           other |-> [d \in Denoms |-> IF d = OtherDenom(poolID) THEN 4 ELSE 2],
           slippage |-> 0]}

\* what simulations.SimulateSwap can answer for `amount` units of the other token
SwapEstimations(amount) ==
    {[err |-> TRUE, out |-> 0, slippage |-> 0]}
    \cup {[err |-> FALSE, out |-> Float64ToSDKInt(100 * amount), slippage |-> sl] :
            sl \in SlippageChoices}

\* what simulations.SimulateJoinPool can answer for a single-sided USDC deposit
JoinEstimations(poolID, amount) ==
    {[err |-> TRUE, shares |-> 0, slippage |-> 0]}
    \cup {[err |-> FALSE,
           shares |-> (SDKIntToFloat64(amount) * PoolsData[poolID].TotalShares)
                          \div PoolsData[poolID].TvlUSD,
           slippage |-> sl] : sl \in SlippageChoices}

\* the deterministic nodes, which answer a query the same way every time: exits give
\* USDC only, USDC and the pool's other token, or two non-USDC tokens; swaps and joins
\* report one slippage
DeterministicSimulators ==
    [deterministic : {TRUE}, exit : {"usdc", "mixed", "tokens"},
     swapSlippage : SlippageChoices, joinSlippage : SlippageChoices]

\* simulations.SimulateLeavePool against the node
SimulateLeavePool(rpcEndpoint, poolID, value) ==
    IF ~rpcEndpoint.deterministic THEN ExitEstimations(poolID, value)
    ELSE {e \in ExitEstimations(poolID, value) :
            /\ ~e.err
            /\ e.slippage = 0
            /\ e.other[OtherDenom(poolID)] =
                   (CASE rpcEndpoint.exit = "usdc" -> 0
                      [] rpcEndpoint.exit = "mixed" -> 2
                      [] rpcEndpoint.exit = "tokens" -> 4)}

\* simulations.SimulateSwap against the node
SimulateSwap(rpcEndpoint, amount) ==
    IF ~rpcEndpoint.deterministic THEN SwapEstimations(amount)
    ELSE {e \in SwapEstimations(amount) :
            ~e.err /\ e.slippage = rpcEndpoint.swapSlippage}

\* simulations.SimulateJoinPool against the node
SimulateJoinPool(rpcEndpoint, poolID, amount) ==
    IF ~rpcEndpoint.deterministic THEN JoinEstimations(poolID, amount)
    ELSE {e \in JoinEstimations(poolID, amount) :
            ~e.err /\ e.slippage = rpcEndpoint.joinSlippage}

ReturnError == [W |-> <<>>, D |-> <<>>, err |-> TRUE]

\* GenerateActionPlan returns err: the named results are nil
PlannerFail(errs) ==
    /\ ret' = ReturnError
    /\ ppc' = "returned"
    /\ simErrs' = errs
    /\ withdrawalActions' = <<>>
    /\ depositActions' = <<>>
    /\ UNCHANGED <<pin, highLevelWithdrawals, highLevelDeposits, simulatedLiquidUSDC,
                   tempNonUSDCAssets, swapTry>>

\* entry of GenerateActionPlan: the empty-vault return, analyzeRequiredChanges,
\* applyRebalancingLimits
AnalyzeAndLimit ==
    /\ ppc = "start"
    /\ IF pin.totalVaultValueUSD <= 0 /\ pin.initialLiquidUSDC <= 0
       THEN /\ ret' = [W |-> <<>>, D |-> <<>>, err |-> FALSE]
            /\ ppc' = "returned"
            /\ UNCHANGED <<highLevelWithdrawals, highLevelDeposits, simulatedLiquidUSDC>>
       ELSE /\ highLevelWithdrawals' =
                  applyRebalancingLimits(analyzeRequiredChanges(pin, "W"), pin)
            /\ highLevelDeposits' = analyzeRequiredChanges(pin, "D")
            /\ simulatedLiquidUSDC' = pin.initialLiquidUSDC
            /\ ppc' = "withdraw"
            /\ UNCHANGED ret
    /\ UNCHANGED <<pin, tempNonUSDCAssets, swapTry, withdrawalActions, depositActions, simErrs>>
    /\ UNCHANGED <<ovars, tvars>>

\* one iteration of the loop of processWithdrawals; the slice was sorted by DeltaUSD,
\* largest withdrawal first
WithdrawStep ==
    /\ ppc = "withdraw"
    /\ \E w \in highLevelWithdrawals :
        /\ \A o \in highLevelWithdrawals : w.DeltaUSD <= o.DeltaUSD
        /\ LET sharesToWithdraw ==
                   pin.currentPositions[w.PoolID].LPShares - w.TargetLPShares
               maxSlippage == getSlippageLimit(w.PoolID, pin.scoringParams)
           IN IF sharesToWithdraw <= 0
              THEN /\ highLevelWithdrawals' = highLevelWithdrawals \ {w}
                   /\ UNCHANGED <<pin, highLevelDeposits, simulatedLiquidUSDC,
                                  tempNonUSDCAssets, swapTry, withdrawalActions,
                                  depositActions, ret, ppc, simErrs>>
              ELSE \E exitEst \in SimulateLeavePool(pin.rpcEndpoint, w.PoolID,
                                                    ShareValue(w.PoolID, sharesToWithdraw)) :
                     IF exitEst.err
                     THEN PlannerFail(simErrs \cup {"simulate_exit"})
                     ELSE /\ withdrawalActions' = Append(withdrawalActions,
                                 [Type |-> "WITHDRAW_LP", PoolID |-> w.PoolID,
                                  Amount |-> sharesToWithdraw,
                                  ExpectedSlippage |-> exitEst.slippage,
                                  SlippageTolerancePct |-> maxSlippage])
                          /\ simulatedLiquidUSDC' =
                                 simulatedLiquidUSDC + SDKIntToFloat64(exitEst.usdc)
                          /\ tempNonUSDCAssets' =
                                 [d \in Denoms |-> tempNonUSDCAssets[d] + exitEst.other[d]]
                          /\ highLevelWithdrawals' = highLevelWithdrawals \ {w}
                          /\ UNCHANGED <<pin, highLevelDeposits, swapTry, depositActions,
                                         ret, ppc, simErrs>>
    /\ UNCHANGED <<ovars, tvars>>

\* processWithdrawals returns; processConsolidation returns at once for an empty map,
\* else it ranges over the map
ProcessConsolidation ==
    /\ ppc = "withdraw"
    /\ highLevelWithdrawals = {}
    /\ IF tempNonUSDCAssets = NoAssets
       THEN ppc' = "deposit" /\ UNCHANGED swapTry
       ELSE /\ ppc' = "swap"
            /\ swapTry' = [NoSwapTry EXCEPT !.todo = {d \in Denoms : tempNonUSDCAssets[d] > 0}]
    /\ UNCHANGED <<pin, highLevelWithdrawals, highLevelDeposits, simulatedLiquidUSDC,
                   tempNonUSDCAssets, withdrawalActions, depositActions, ret, simErrs>>
    /\ UNCHANGED <<ovars, tvars>>

\* `for denom, amount := range tempNonUSDCAssets`: the next denom, in the order the map
\* iteration gives, and the call of findViableSwapAmount on its amount
SwapSearchStart ==
    /\ ppc = "swap"
    /\ swapTry.denom = ""
    /\ \E denom \in swapTry.todo :
         swapTry' = [denom |-> denom, amount |-> tempNonUSDCAssets[denom], retry |-> 0,
                     todo |-> swapTry.todo \ {denom}]
    /\ UNCHANGED <<ppc, pin, highLevelWithdrawals, highLevelDeposits, simulatedLiquidUSDC,
                   tempNonUSDCAssets, withdrawalActions, depositActions, ret, simErrs>>
    /\ UNCHANGED <<ovars, tvars>>

\* the float64 of amount / 10^18 lies above the decimal value
FloatAbove(amount) == amount \in {1, 5}

\* a reduction that takes the amount to zero at once
ReduceToZero(amount, reductionFactor) == 0

\* SDKIntToFloat64(currentAmount, 18) * reductionFactor back through Float64ToSDKInt:
\* the product printed with %.18f, that is rounded to the nearest base unit, a half
\* going the way of the float64 representation
ReducedSwapAmount(amount, reductionFactor) ==
    LET n == amount * reductionFactor.num
        q == n \div reductionFactor.den
        r == n % reductionFactor.den
    IN IF 2 * r > reductionFactor.den THEN q + 1
       ELSE IF 2 * r < reductionFactor.den THEN q
       ELSE IF FloatAbove(amount) THEN q + 1 ELSE q

\* one iteration of the loop of findViableSwapAmount: the amount is taken when the
\* simulation answers without error within the slippage limit, else it is reduced.
\* On success processConsolidation appends the swap and adds the USDC received.
SwapAttempt ==
    /\ ppc = "swap"
    /\ swapTry.denom # ""
    /\ swapTry.retry < maxRetries
    /\ swapTry.amount # 0
    /\ \E swapEst \in SimulateSwap(pin.rpcEndpoint, swapTry.amount) :
        LET maxSlippage == pin.scoringParams.NormalPoolSlippagePercent
            factor == pin.scoringParams.ViableSwapReductionFactor
        IN IF ~swapEst.err /\ swapEst.slippage <= maxSlippage
           THEN /\ withdrawalActions' = Append(withdrawalActions,
                       [Type |-> "SWAP", PoolID |-> 0, Amount |-> swapTry.amount,
                        ExpectedSlippage |-> swapEst.slippage,
                        SlippageTolerancePct |-> maxSlippage,
                        Denom |-> swapTry.denom])
                /\ simulatedLiquidUSDC' = simulatedLiquidUSDC + SDKIntToFloat64(swapEst.out)
                /\ swapTry' = [swapTry EXCEPT !.denom = ""]
                /\ UNCHANGED simErrs
           ELSE /\ swapTry' = [swapTry EXCEPT !.amount = ReducedSwapAmount(@, factor),
                                              !.retry = @ + 1]
                /\ simErrs' = IF swapEst.err THEN simErrs \cup {"simulate_swap"} ELSE simErrs
                /\ UNCHANGED <<withdrawalActions, simulatedLiquidUSDC>>
    /\ UNCHANGED <<ppc, pin, highLevelWithdrawals, highLevelDeposits, tempNonUSDCAssets,
                   depositActions, ret>>
    /\ UNCHANGED <<ovars, tvars>>

\* findViableSwapAmount gives up ("no viable swap amount found"): processConsolidation
\* logs the error and continues with the next denom, without a swap for this one
SwapGiveUp ==
    /\ ppc = "swap"
    /\ swapTry.denom # ""
    /\ swapTry.retry >= maxRetries \/ swapTry.amount = 0
    /\ swapTry' = [swapTry EXCEPT !.denom = ""]
    /\ UNCHANGED <<ppc, pin, highLevelWithdrawals, highLevelDeposits, simulatedLiquidUSDC,
                   tempNonUSDCAssets, withdrawalActions, depositActions, ret, simErrs>>
    /\ UNCHANGED <<ovars, tvars>>

\* the range over the map is through: processConsolidation returns, processDeposits starts
ConsolidationReturn ==
    /\ ppc = "swap"
    /\ swapTry.denom = ""
    /\ swapTry.todo = {}
    /\ ppc' = "deposit"
    /\ UNCHANGED <<pin, highLevelWithdrawals, highLevelDeposits, simulatedLiquidUSDC,
                   tempNonUSDCAssets, swapTry, withdrawalActions, depositActions, ret,
                   simErrs>>
    /\ UNCHANGED <<ovars, tvars>>

\* the amount of the second attempt of findViableDepositAmount
ReducedDepositAmount(amount, scoringParams) ==
    LET factor == scoringParams.ViableDepositReductionFactor
        reductionFactorInt == (factor.num * 100) \div factor.den
    IN (amount * reductionFactorInt) \div 100

\* findViableDepositAmount: the amount as asked, then once the reduced amount; the
\* result is [err, amount, est], with the simulations that returned an error
findViableDepositAmount(poolID, amount, scoringParams, first, second) ==
    LET maxSlippage == getSlippageLimit(poolID, scoringParams)
        reducedAmount == ReducedDepositAmount(amount, scoringParams)
    IN IF ~first.err /\ first.slippage <= maxSlippage
       THEN [err |-> FALSE, amount |-> amount, est |-> first, simErr |-> FALSE]
       ELSE IF ~second.err /\ second.slippage <= maxSlippage
       THEN [err |-> FALSE, amount |-> reducedAmount, est |-> second, simErr |-> first.err]
       ELSE [err |-> TRUE, amount |-> 0, est |-> second,
             simErr |-> first.err \/ second.err]

\* processDeposits without the buffer: everything liquid may be deposited
maxAvailableIgnoringBuffer(liquidUSDC, scoringParams) == liquidUSDC

\* maxAvailableForDeposit of processDeposits: what is liquid above the minimum buffer,
\* never negative
maxAvailableForDeposit(liquidUSDC, scoringParams) ==
    LET room == liquidUSDC - scoringParams.MinLiquidUSDCBuffer
    IN IF room < 0 THEN 0 ELSE room

\* one iteration of the loop of processDeposits; the slice was sorted by DeltaUSD,
\* largest deposit first
DepositStep ==
    /\ ppc = "deposit"
    /\ \E d \in highLevelDeposits :
        /\ \A o \in highLevelDeposits : d.DeltaUSD >= o.DeltaUSD
        /\ highLevelDeposits' = highLevelDeposits \ {d}
        /\ LET prm == pin.scoringParams
               maxAvailable == maxAvailableForDeposit(simulatedLiquidUSDC, prm)
               targetUSDCAmount == IF d.DeltaUSD > maxAvailable
                                   THEN maxAvailable ELSE d.DeltaUSD
               usdcAmount == Float64ToSDKInt(targetUSDCAmount)
           IN IF d.DeltaUSD <= 0 \/ targetUSDCAmount < 100
              THEN UNCHANGED <<depositActions, simulatedLiquidUSDC, simErrs>>
              ELSE \E first \in SimulateJoinPool(pin.rpcEndpoint, d.PoolID, usdcAmount),
                      second \in SimulateJoinPool(pin.rpcEndpoint, d.PoolID,
                                                  ReducedDepositAmount(usdcAmount, prm)) :
                     LET found == findViableDepositAmount(d.PoolID, usdcAmount, prm,
                                                          first, second)
                     IN /\ simErrs' = IF found.simErr THEN simErrs \cup {"simulate_join"}
                                      ELSE simErrs
                        /\ IF found.err \/ found.amount = 0
                           THEN UNCHANGED <<depositActions, simulatedLiquidUSDC>>
                           ELSE /\ depositActions' = Append(depositActions,
                                       [Type |-> "DEPOSIT_LP", PoolID |-> d.PoolID,
                                        Amount |-> found.amount,
                                        ExpectedSlippage |-> found.est.slippage,
                                        SlippageTolerancePct |-> getSlippageLimit(d.PoolID, prm)])
                                /\ simulatedLiquidUSDC' =
                                       simulatedLiquidUSDC - SDKIntToFloat64(found.amount)
    /\ UNCHANGED <<ppc, pin, highLevelWithdrawals, tempNonUSDCAssets, swapTry,
                   withdrawalActions, ret>>
    /\ UNCHANGED <<ovars, tvars>>

\* processDeposits returns, GenerateActionPlan returns both lists and no error
PlannerReturn ==
    /\ ppc = "deposit"
    /\ highLevelDeposits = {}
    /\ ret' = [W |-> withdrawalActions, D |-> depositActions, err |-> FALSE]
    /\ ppc' = "returned"
    /\ UNCHANGED <<pin, highLevelWithdrawals, highLevelDeposits, simulatedLiquidUSDC,
                   tempNonUSDCAssets, swapTry, withdrawalActions, depositActions, simErrs>>
    /\ UNCHANGED <<ovars, tvars>>

\* a call of GenerateActionPlan with any of the inputs
InitPlanner ==
    /\ InitOrchestrator
    /\ vault.liquid = VaultUnits
    /\ pin \in PlannerInputs
    /\ ppc = "start"
    /\ highLevelWithdrawals = {}
    /\ highLevelDeposits = {}
    /\ simulatedLiquidUSDC = 0
    /\ tempNonUSDCAssets = NoAssets
    /\ swapTry = NoSwapTry
    /\ withdrawalActions = <<>>
    /\ depositActions = <<>>
    /\ ret = <<>>
    /\ simErrs = {}
    /\ ToolsIdle

NextPlanner ==
    \/ AnalyzeAndLimit
    \/ WithdrawStep
    \/ ProcessConsolidation
    \/ SwapSearchStart
    \/ SwapAttempt
    \/ SwapGiveUp
    \/ ConsolidationReturn
    \/ DepositStep
    \/ PlannerReturn

SpecPlanner == InitPlanner /\ [][NextPlanner]_vars

\* GenerateActionPlan has returned and is called once more with the same arguments
CallAgain ==
    /\ ppc = "returned"
    /\ replay = <<>>
    /\ replay' = <<ret>>
    /\ ppc' = "start"
    /\ highLevelWithdrawals' = {}
    /\ highLevelDeposits' = {}
    /\ simulatedLiquidUSDC' = 0
    /\ tempNonUSDCAssets' = NoAssets
    /\ swapTry' = NoSwapTry
    /\ withdrawalActions' = <<>>
    /\ depositActions' = <<>>
    /\ ret' = <<>>
    /\ simErrs' = {}
    /\ UNCHANGED pin
    /\ UNCHANGED <<ovars, wvars, dvars, mvars, avars, volvars, poll, lvars>>

\* the arguments of the calls against a deterministic node
ReplanInputs ==
    {[in EXCEPT !.rpcEndpoint = sim] : in \in PlannerInputs, sim \in DeterministicSimulators}

\* two calls of GenerateActionPlan with the same arguments against a deterministic node
InitReplan ==
    /\ InitOrchestrator
    /\ vault.liquid = VaultUnits
    /\ pin \in ReplanInputs
    /\ ppc = "start"
    /\ highLevelWithdrawals = {}
    /\ highLevelDeposits = {}
    /\ simulatedLiquidUSDC = 0
    /\ tempNonUSDCAssets = NoAssets
    /\ swapTry = NoSwapTry
    /\ withdrawalActions = <<>>
    /\ depositActions = <<>>
    /\ ret = <<>>
    /\ simErrs = {}
    /\ ToolsIdle

NextReplan ==
    \/ AnalyzeAndLimit
    \/ WithdrawStep
    \/ ProcessConsolidation
    \/ SwapSearchStart
    \/ SwapAttempt
    \/ SwapGiveUp
    \/ ConsolidationReturn
    \/ DepositStep
    \/ PlannerReturn
    \/ CallAgain

SpecReplan == InitReplan /\ [][NextReplan]_vars

\* ------------------------------------------------------------------------
\* TransactionBuilder: minimum outputs of the chain messages
\* (internal/wallet/transactions.go). Amounts in base units, tolerances in percent.
\* ------------------------------------------------------------------------
MaxExpected == 12     \* largest expected output of a SubAction

\* slippage tolerances (percent) a SubAction can carry
ToleranceChoices == {0, 1, 40, 50, 99}

\* toleranceFactor := 1.0 - SlippageTolerancePct (float64) printed with %.18f, compared
\* with the exact 1 - t/100: 1.000000000000000000 and 0.500000000000000000 are exact,
\* 0.989999999999999991 and 0.599999999999999978 are below, 0.010000000000000009 above
ToleranceFactorError(tolerance) ==
    CASE tolerance \in {1, 40} -> -1
      [] tolerance = 99 -> 1
      [] OTHER -> 0

\* expectedDec.Mul(toleranceFactorDec).TruncateInt(): the product of the integer amount
\* with the 18-decimal factor, truncated; a factor just below the exact one loses a
\* unit when the exact product is whole
TruncatedProduct(expected, tolerance) ==
    LET exact == expected * (100 - tolerance)
    IN IF exact % 100 = 0 /\ exact > 0 /\ ToleranceFactorError(tolerance) < 0
       THEN (exact \div 100) - 1
       ELSE exact \div 100

\* calculateMinimumSwapAmount / calculateMinimumShares (the same code on
\* ExpectedTokenOut / ExpectedSharesOut): 1 unless an expected output and a positive
\* tolerance are given, else the truncated product, raised to 1
calculateMinimum(expected, tolerance) ==
    IF expected # 0 /\ tolerance > 0
    THEN LET calculated == TruncatedProduct(expected, tolerance)
         IN IF calculated = 0 THEN 1 ELSE calculated
    ELSE 1

calculateMinimumSwapAmount(a) == calculateMinimum(a.Expected[1], a.SlippageTolerancePct)

calculateMinimumShares(a) == calculateMinimum(a.Expected[1], a.SlippageTolerancePct)

\* calculateMinimumWithdrawAmounts: for each expected coin the truncated product, raised
\* to 1 when it is 0 and the expected amount is positive
calculateMinimumWithdrawAmounts(a) ==
    [i \in DOMAIN a.Expected |->
        LET minAmount == TruncatedProduct(a.Expected[i], a.SlippageTolerancePct)
        IN IF minAmount = 0 /\ a.Expected[i] > 0 THEN 1 ELSE minAmount]

\* the SubActions handed to SubActionsToMessages: one expected output for a swap or a
\* deposit, one or two expected coins for a withdrawal, all positive
SubActionChoices ==
    {[Type |-> t, Expected |-> <<e>>, SlippageTolerancePct |-> tol] :
        t \in {"SWAP", "DEPOSIT_LP", "WITHDRAW_LP"}, e \in 1..MaxExpected,
        tol \in ToleranceChoices}
    \cup {[Type |-> "WITHDRAW_LP", Expected |-> <<e, 1>>, SlippageTolerancePct |-> tol] :
            e \in 1..MaxExpected, tol \in ToleranceChoices}

\* createSwapMessage: MinAmount of MsgPerformActionSwapByDenom
createSwapMessage ==
    /\ subAction # <<>> /\ chainMsg = <<>>
    /\ subAction.Type = "SWAP"
    /\ chainMsg' = [MinOut |-> <<calculateMinimumSwapAmount(subAction)>>]
    /\ UNCHANGED <<subAction, ovars, pvars, dvars, mvars, avars, uvars>>

\* createDepositLPMessage: ShareAmountOut of MsgPerformActionJoinPool
createDepositLPMessage ==
    /\ subAction # <<>> /\ chainMsg = <<>>
    /\ subAction.Type = "DEPOSIT_LP"
    /\ chainMsg' = [MinOut |-> <<calculateMinimumShares(subAction)>>]
    /\ UNCHANGED <<subAction, ovars, pvars, dvars, mvars, avars, uvars>>

\* createWithdrawLPMessage: MinAmountsOut of MsgPerformActionExitPool
createWithdrawLPMessage ==
    /\ subAction # <<>> /\ chainMsg = <<>>
    /\ subAction.Type = "WITHDRAW_LP"
    /\ chainMsg' = [MinOut |-> calculateMinimumWithdrawAmounts(subAction)]
    /\ UNCHANGED <<subAction, ovars, pvars, dvars, mvars, avars, uvars>>

\* a SubAction is converted
InitWallet ==
    /\ InitOrchestrator
    /\ vault.liquid = VaultUnits
    /\ PlannerIdle
    /\ subAction \in SubActionChoices
    /\ chainMsg = <<>>
    /\ ParametersIdle
    /\ ProcessRunning
    /\ UtilitiesIdle
    /\ AnalyzerIdle

NextWallet ==
    \/ createSwapMessage
    \/ createDepositLPMessage
    \/ createWithdrawLPMessage

SpecWallet == InitWallet /\ [][NextWallet]_vars

\* ------------------------------------------------------------------------
\* state.SaveScoringParameters (internal/state/parameters_store.go) on the
\* scoring_parameters table of EnsureSchema, transactions at READ COMMITTED
\* ------------------------------------------------------------------------
MaxCalls == 3       \* calls of SaveScoringParameters
MaxVersion == 2     \* version numbers 1..MaxVersion

ConfigNames == {"default", "alt"}

\* the sessions whose transaction is open
OpenSessions == {c \in Connections : sessions[c].pc \in {"deactivate", "locking", "insert", "commit"}}

\* the active params_ids of a config among the rows
ActiveRows(rs, configName) == {r.params_id : r \in {x \in rs : x.config_name = configName /\ x.is_active}}

\* tx.Rollback() of the deferred function: nothing of the transaction is kept
Rollback(c) ==
    sessions' = [sessions EXCEPT ![c].pc = "done", ![c].err = TRUE, ![c].deactivated = {}]

\* the call and DB.Begin(); params_id comes from the SERIAL sequence
BeginSave(c) ==
    /\ sessions[c].pc \in {"idle", "done"}
    /\ calls < MaxCalls
    /\ \E configName \in ConfigNames, version \in 1..MaxVersion, makeActive \in BOOLEAN :
         sessions' = [sessions EXCEPT ![c] =
             [NoSession EXCEPT !.pc = IF makeActive THEN "deactivate" ELSE "insert",
                               !.configName = configName, !.version = version,
                               !.makeActive = makeActive, !.paramsID = calls + 1]]
    /\ calls' = calls + 1
    /\ UNCHANGED paramRows
    /\ UNCHANGED <<ovars, pvars, wvars, mvars, avars, uvars>>

\* UPDATE ... SET is_active = FALSE WHERE config_name = $1 AND is_active = TRUE starts:
\* the statement sees the rows committed at this moment
DeactivateScan(c) ==
    /\ sessions[c].pc = "deactivate"
    /\ sessions' = [sessions EXCEPT ![c].pc = "locking",
                                     ![c].targets = ActiveRows(paramRows, sessions[c].configName)]
    /\ UNCHANGED <<paramRows, calls>>
    /\ UNCHANGED <<ovars, pvars, wvars, mvars, avars, uvars>>

\* the UPDATE takes the row locks (waiting for a transaction that updated one of the
\* rows) and updates the rows that still satisfy the WHERE clause
DeactivateApply(c) ==
    /\ sessions[c].pc = "locking"
    /\ \A o \in OpenSessions \ {c} : sessions[o].deactivated \cap sessions[c].targets = {}
    /\ sessions' = [sessions EXCEPT ![c].pc = "insert",
                      ![c].deactivated = sessions[c].targets
                                           \cap ActiveRows(paramRows, sessions[c].configName)]
    /\ UNCHANGED <<paramRows, calls>>
    /\ UNCHANGED <<ovars, pvars, wvars, mvars, avars, uvars>>

\* INSERT ... RETURNING params_id under uq_scoring_parameters_config_version: waits
\* for an open transaction that inserted the same key, fails on a committed one
InsertParameters(c) ==
    /\ sessions[c].pc = "insert"
    /\ \A o \in OpenSessions \ {c} :
          sessions[o].pc = "commit" =>
              <<sessions[o].configName, sessions[o].version>>
                  # <<sessions[c].configName, sessions[c].version>>
    /\ IF \E r \in paramRows : r.config_name = sessions[c].configName
                            /\ r.version = sessions[c].version
       THEN Rollback(c)
       ELSE sessions' = [sessions EXCEPT ![c].pc = "commit"]
    /\ UNCHANGED <<paramRows, calls>>
    /\ UNCHANGED <<ovars, pvars, wvars, mvars, avars, uvars>>

\* tx.Commit(): the updates and the inserted row become visible; the call returns
\* params_id
CommitSave(c) ==
    /\ sessions[c].pc = "commit"
    /\ LET updated == {IF r.params_id \in sessions[c].deactivated
                       THEN [r EXCEPT !.is_active = FALSE] ELSE r : r \in paramRows}
           after == updated \cup {[params_id |-> sessions[c].paramsID,
                                   config_name |-> sessions[c].configName,
                                   version |-> sessions[c].version,
                                   is_active |-> sessions[c].makeActive]}
       IN /\ paramRows' = after
          /\ sessions' = [sessions EXCEPT ![c].pc = "done", ![c].deactivated = {},
                            ![c].activeAfter = ActiveRows(after, sessions[c].configName)]
    /\ UNCHANGED calls
    /\ UNCHANGED <<ovars, pvars, wvars, mvars, avars, uvars>>

InitParameters ==
    /\ InitOrchestrator
    /\ vault.liquid = VaultUnits
    /\ PlannerIdle
    /\ WalletIdle
    /\ ParametersIdle
    /\ ProcessRunning
    /\ UtilitiesIdle
    /\ AnalyzerIdle

NextParameters ==
    \/ \E c \in Connections : BeginSave(c)
    \/ \E c \in Connections : DeactivateScan(c)
    \/ \E c \in Connections : DeactivateApply(c)
    \/ \E c \in Connections : InsertParameters(c)
    \/ \E c \in Connections : CommitSave(c)

SpecParameters == InitParameters /\ [][NextParameters]_vars

\* ------------------------------------------------------------------------
\* analyzer.SelectTopPools and analyzer.DetermineTargetAllocations
\* (internal/analyzer/SelectTopPools.go). Allocations are counted in millionths and
\* kept as exact fractions where the code has float64 quotients.
\* ------------------------------------------------------------------------
MaxScore == 3                    \* scores 0..MaxScore
One == 1000000                   \* 1.0
AllocTolerance == 10             \* 0.00001
SumTolerance == 1000             \* 0.001
maxAllocationIterations == 20

AnalyzerPools == {1, 2, 3}

\* scoring parameters the two functions read
AnalyzerParams ==
    [MaxPools                    : 1..Cardinality(AnalyzerPools),
     MinAllocation               : {0, 299500, 299995, 600000},
     MaxAllocation               : {500000, 700000, One},
     ElysForcedAllocationMinimum : {100000, 300000}]

\* scoredPools (in the order of the pool ids), the pools whose score is NaN or +/-Inf,
\* the pools of poolsDataMap with uelys as TokenA or TokenB, and the parameters; the
\* scores that reach the allocator are finite
AnalyzerInputs ==
    [scores    : [AnalyzerPools -> 0..MaxScore],
     nonFinite : {{}},
     elys      : SUBSET AnalyzerPools,
     params    : AnalyzerParams]

\* the inputs of a run of the selector alone: any of the scores may be NaN or +/-Inf;
\* of the parameters the selector reads MaxPools only
SelectorInputs ==
    [scores    : [AnalyzerPools -> 0..MaxScore],
     nonFinite : SUBSET AnalyzerPools,
     elys      : SUBSET AnalyzerPools,
     params    : {p \in AnalyzerParams : /\ p.MinAllocation = 0
                                         /\ p.MaxAllocation = One
                                         /\ p.ElysForcedAllocationMinimum = 100000}]

Range(seq) == {seq[i] : i \in DOMAIN seq}

\* the results sort.Slice can give: any order of the pools with scores descending
SortedByScore(scores) ==
    {sq \in [1..Cardinality(AnalyzerPools) -> AnalyzerPools] :
        /\ Range(sq) = AnalyzerPools
        /\ \A i, j \in DOMAIN sq : i < j => scores[sq[i]] >= scores[sq[j]]}

\* a selector that keeps the first ELYS pool it meets, whatever its score
FirstElysPool(scores, elys) == CHOOSE p \in elys : \A q \in elys : p <= q

\* the ELYS pool SelectTopPools settles on: the first one met is replaced only by a
\* later one with a strictly greater score
BestElysPool(scores, elys) ==
    CHOOSE p \in elys :
        \A q \in elys : scores[p] > scores[q] \/ (scores[p] = scores[q] /\ p <= q)

\* SelectTopPools: the top MaxPools by score; an ELYS pool outside of them takes the
\* place of the last (lowest-scoring) one
SelectTopPools ==
    /\ apc = "select"
    /\ IF ain.nonFinite # {}
       THEN \* return nil, 0, fmt.Errorf("pool %d has invalid score: %f", ...)
            /\ selection' = [top |-> <<>>, ids |-> <<>>, elysPoolID |-> 0, err |-> TRUE]
            /\ apc' = "rejected"
       ELSE /\ \E validScoredPools \in SortedByScore(ain.scores) :
              LET numberOfPoolsToSelect ==
                      IF ain.params.MaxPools > Len(validScoredPools)
                      THEN Len(validScoredPools) ELSE ain.params.MaxPools
                  top == SubSeq(validScoredPools, 1, numberOfPoolsToSelect)
                  elysPoolFound == ain.elys # {}
                  elysPoolID == IF elysPoolFound THEN BestElysPool(ain.scores, ain.elys) ELSE 0
              IN selection' =
                     [top |-> top,
                      ids |-> IF elysPoolFound /\ elysPoolID \notin Range(top)
                              THEN Append(SubSeq(top, 1, Len(top) - 1), elysPoolID)
                              ELSE top,
                      elysPoolID |-> elysPoolID,
                      err |-> FALSE]
            /\ apc' = "validate"
    /\ UNCHANGED <<ain, lockedAllocations, unlockedPoolScores, allocations, iteration, aret>>
    /\ UNCHANGED <<ovars, pvars, wvars, dvars, mvars, uvars>>

\* DetermineTargetAllocations returns an error: errors.New / fmt.Errorf without %w, the
\* error wraps none of the package's sentinel errors
AllocationError(message) ==
    /\ aret' = [err |-> TRUE, is |-> "", message |-> message, alloc |-> <<>>, finalSum |-> 0]
    /\ apc' = "returned"

\* a minimum that does not know the forced pool
StandardMinimum(id, elysPoolID, params) == params.MinAllocation

\* minAlloc / minRequired: the forced minimum for the ELYS pool, MinAllocation otherwise
EffectiveMinimum(id, elysPoolID, params) ==
    IF id = elysPoolID /\ elysPoolID # 0 THEN params.ElysForcedAllocationMinimum
    ELSE params.MinAllocation

\* sections 1 to 3 of DetermineTargetAllocations: validation of the constraints, the
\* feasibility checks, the scores, the initial score-based allocations
DetermineTargetAllocations ==
    /\ apc = "validate"
    /\ LET params == ain.params
           ids == Range(selection.ids)
           numSelected == Len(selection.ids)
           elysPoolInSelection == selection.elysPoolID \in ids
           minTotalRequired ==
               IF elysPoolInSelection /\ selection.elysPoolID # 0
               THEN params.ElysForcedAllocationMinimum
                        + (numSelected - 1) * params.MinAllocation
               ELSE numSelected * params.MinAllocation
           totalScore == SumOver(ain.scores, ids)
       IN IF params.MinAllocation > params.MaxAllocation
          THEN AllocationError("MinAllocation cannot be greater than MaxAllocation")
                 /\ UNCHANGED <<lockedAllocations, unlockedPoolScores, allocations>>
          ELSE IF minTotalRequired > One + AllocTolerance
          THEN AllocationError("minimum allocation constraints cannot be satisfied")
                 /\ UNCHANGED <<lockedAllocations, unlockedPoolScores, allocations>>
          ELSE IF One > params.MaxAllocation * numSelected
          THEN AllocationError("equal distribution violates MaxAllocation constraint")
                 /\ UNCHANGED <<lockedAllocations, unlockedPoolScores, allocations>>
          ELSE IF \E id \in ids : ain.scores[id] <= 0
          THEN AllocationError("pool has non-positive score")
                 /\ UNCHANGED <<lockedAllocations, unlockedPoolScores, allocations>>
          ELSE /\ allocations' = [id \in ids |-> [num |-> ain.scores[id] * One,
                                                    den |-> totalScore]]
               /\ lockedAllocations' = [id \in ids |-> -1]
               /\ unlockedPoolScores' = ids
               /\ apc' = "iterate"
               /\ UNCHANGED aret
    /\ UNCHANGED <<ain, selection, iteration>>
    /\ UNCHANGED <<ovars, pvars, wvars, dvars, mvars, uvars>>

\* an allocator that hands out only nine tenths
RemainingOfNineTenths(locked) ==
    (One - One \div 10)
    - SumOver([id \in DOMAIN locked |-> IF locked[id] < 0 THEN 0 ELSE locked[id]],
              DOMAIN locked)

\* 1.0 minus the locked allocations
RemainingPercent(locked) ==
    One - SumOver([id \in DOMAIN locked |-> IF locked[id] < 0 THEN 0 ELSE locked[id]],
                  DOMAIN locked)

\* a loop that gives up after its second iteration
IterationsExhaustedEarly(n) == n >= 2

\* `iteration < maxAllocationIterations` is false: the loop ends although the last
\* iteration still locked a pool
IterationsExhausted(n) == n >= maxAllocationIterations

\* one iteration of the constraint loop of section 4: every unlocked pool gets its
\* share of what is left and is locked at its minimum or at the maximum when outside
EnforceConstraints ==
    /\ apc = "iterate"
    /\ IF IterationsExhausted(iteration)
       THEN AllocationError("allocation constraint enforcement failed to converge")
              /\ UNCHANGED <<lockedAllocations, unlockedPoolScores, allocations, iteration>>
       ELSE IF RemainingPercent(lockedAllocations) < -AllocTolerance
       THEN AllocationError("allocation constraint enforcement resulted in over-allocation")
              /\ UNCHANGED <<lockedAllocations, unlockedPoolScores, allocations, iteration>>
       ELSE LET params == ain.params
                left == RemainingPercent(lockedAllocations)
                remainingPercent == IF left < 0 THEN 0 ELSE left
                totalUnlockedScore == SumOver(ain.scores, unlockedPoolScores)
                currentAlloc == [id \in unlockedPoolScores |->
                                    [num |-> ain.scores[id] * remainingPercent,
                                     den |-> totalUnlockedScore]]
                below == {id \in unlockedPoolScores :
                             currentAlloc[id].num
                                 < EffectiveMinimum(id, selection.elysPoolID, params)
                                       * totalUnlockedScore}
                above == {id \in unlockedPoolScores \ below :
                             currentAlloc[id].num > params.MaxAllocation * totalUnlockedScore}
            IN /\ iteration' = iteration + 1
               /\ allocations' = [id \in DOMAIN allocations |->
                                     IF id \in unlockedPoolScores THEN currentAlloc[id]
                                     ELSE allocations[id]]
               /\ lockedAllocations' = [id \in DOMAIN lockedAllocations |->
                     IF id \in below
                     THEN EffectiveMinimum(id, selection.elysPoolID, params)
                     ELSE IF id \in above THEN params.MaxAllocation
                     ELSE lockedAllocations[id]]
               /\ unlockedPoolScores' = unlockedPoolScores \ (below \cup above)
               /\ apc' = IF below \cup above = {} THEN "final" ELSE "iterate"
               /\ UNCHANGED aret
    /\ UNCHANGED <<ain, selection>>
    /\ UNCHANGED <<ovars, pvars, wvars, dvars, mvars, uvars>>

\* a * b as <<high, low>> in base 1000000, for operands that do not fit a product
WideProduct(a, b) ==
    LET a1 == a \div 1000
        a0 == a % 1000
        b1 == b \div 1000
        b0 == b % 1000
        mid == a1 * b0 + a0 * b1
        low == a0 * b0 + (mid % 1000) * 1000
    IN <<a1 * b1 + mid \div 1000 + low \div 1000000, low % 1000000>>

\* a * b < c * d
ProductLess(a, b, c, d) ==
    LET x == WideProduct(a, b)
        y == WideProduct(c, d)
    IN x[1] < y[1] \/ (x[1] = y[1] /\ x[2] < y[2])

\* alloc * scaleFactor < bound, with scaleFactor = 1.0 / finalSum
NormalizedLess(alloc, finalSum, bound) ==
    bound > 0 /\ ProductLess(alloc.num, One, bound * alloc.den, finalSum)

\* alloc * scaleFactor > bound
NormalizedGreater(alloc, finalSum, bound) ==
    ProductLess(bound * alloc.den, finalSum, alloc.num, One)

\* targetAllocations of section 5 before the scaling: the locked value, else the
\* proportional allocation
TargetAllocations ==
    [id \in DOMAIN allocations |->
        IF lockedAllocations[id] >= 0 THEN [num |-> lockedAllocations[id], den |-> 1]
        ELSE allocations[id]]

\* finalSum: the locked values and what the unlocked pools share, which is what was left
FinalSum ==
    SumOver([id \in DOMAIN allocations |->
                 IF lockedAllocations[id] >= 0 THEN lockedAllocations[id] ELSE 0],
            DOMAIN allocations)
    + (IF unlockedPoolScores = {} THEN 0
       ELSE SumOver([id \in unlockedPoolScores |-> allocations[id].num], unlockedPoolScores)
                \div SumOver(ain.scores, unlockedPoolScores))

\* section 5: final assignment, the check of the sum, scaling to a sum of 1.0, the final
\* check of every pool against its minimum and the maximum; the returned allocation of
\* a pool is alloc[id] * (One / finalSum)
FinalAssignment ==
    /\ apc = "final"
    /\ IF Abs(FinalSum - One) > SumTolerance
       THEN AllocationError("final allocation sum deviates significantly from 1.0")
       ELSE IF \E id \in DOMAIN allocations :
                 \/ NormalizedLess(TargetAllocations[id], FinalSum,
                        EffectiveMinimum(id, selection.elysPoolID, ain.params)
                            - AllocTolerance)
                 \/ NormalizedGreater(TargetAllocations[id], FinalSum,
                        ain.params.MaxAllocation + AllocTolerance)
       THEN AllocationError("final allocation violates constraints")
       ELSE /\ aret' = [err |-> FALSE, is |-> "", message |-> "",
                        alloc |-> TargetAllocations, finalSum |-> FinalSum]
            /\ apc' = "returned"
    /\ UNCHANGED <<ain, selection, lockedAllocations, unlockedPoolScores, allocations,
                   iteration>>
    /\ UNCHANGED <<ovars, pvars, wvars, dvars, mvars, uvars>>

\* a run of the selector and the allocator on any of the inputs
InitAnalyzer ==
    /\ InitOrchestrator
    /\ vault.liquid = VaultUnits
    /\ PlannerIdle
    /\ WalletIdle
    /\ ParametersIdle
    /\ ProcessRunning
    /\ UtilitiesIdle
    /\ apc = "select"
    /\ ain \in AnalyzerInputs
    /\ selection = <<>>
    /\ lockedAllocations = <<>>
    /\ unlockedPoolScores = {}
    /\ allocations = <<>>
    /\ iteration = 0
    /\ aret = <<>>

\* a run of the selector on scored pools of which any may have a non-finite score
InitSelector ==
    /\ InitOrchestrator
    /\ vault.liquid = VaultUnits
    /\ PlannerIdle
    /\ WalletIdle
    /\ ParametersIdle
    /\ ProcessRunning
    /\ UtilitiesIdle
    /\ apc = "select"
    /\ ain \in SelectorInputs
    /\ selection = <<>>
    /\ lockedAllocations = <<>>
    /\ unlockedPoolScores = {}
    /\ allocations = <<>>
    /\ iteration = 0
    /\ aret = <<>>

NextSelector ==
    \/ SelectTopPools

SpecSelector == InitSelector /\ [][NextSelector]_vars

NextAnalyzer ==
    \/ SelectTopPools
    \/ DetermineTargetAllocations
    \/ EnforceConstraints
    \/ FinalAssignment

SpecAnalyzer == InitAnalyzer /\ [][NextAnalyzer]_vars

\* ------------------------------------------------------------------------
\* analyzer.CalculateVolatility (internal/analyzer/SelectTopPools.go). The prices and
\* the timestamps are small integers; the returned volatility is followed only as zero
\* or positive.
\* ------------------------------------------------------------------------
MaxPrices == 3                   \* length of the prices slice, at most

PriceData == [Timestamp : 1..2, Price : 0..2]

PriceSlices == UNION {[1..n -> PriceData] : n \in 0..MaxPrices}

\* sort.Slice by Timestamp: slices of at most 12 elements are sorted by insertion, which
\* keeps elements with equal timestamps in their order
SortByTimestamp(ps) ==
    LET n == Len(ps)
        f == CHOOSE g \in [1..n -> 1..n] :
                 /\ Range(g) = 1..n
                 /\ \A i, j \in 1..n : i < j =>
                        \/ ps[g[i]].Timestamp < ps[g[j]].Timestamp
                        \/ ps[g[i]].Timestamp = ps[g[j]].Timestamp /\ g[i] < g[j]
    IN [i \in 1..n |-> ps[f[i]]]

\* the indexes i whose pair (i-1, i) gives a log return: both prices positive
UsablePairs(ps) ==
    {i \in 2..Len(ps) : ~(ps[i - 1].Price <= 0 \/ ps[i].Price <= 0)}

\* the log returns are all equal (then their standard deviation is 0)
EqualReturns(ps) ==
    \A i, j \in UsablePairs(ps) :
        ps[i].Price * ps[j - 1].Price = ps[j].Price * ps[i - 1].Price

\* CalculateVolatility: ErrInsufficientData for fewer than two prices, else the slice is
\* sorted in place, the pairs with a non-positive price are skipped, ErrInsufficientData
\* for no log return at all, else the annualized standard deviation
CalculateVolatility ==
    /\ vpc = "call"
    /\ IF Len(prices) < 2
       THEN /\ vret' = [err |-> TRUE, is |-> "ErrInsufficientData", numReturns |-> 0,
                        volatility |-> "zero"]
            /\ UNCHANGED prices
       ELSE LET sorted == SortByTimestamp(prices)
                numReturns == Cardinality(UsablePairs(sorted))
            IN /\ prices' = sorted
               /\ vret' = IF numReturns = 0
                          THEN [err |-> TRUE, is |-> "ErrInsufficientData",
                                numReturns |-> 0, volatility |-> "zero"]
                          ELSE [err |-> FALSE, is |-> "", numReturns |-> numReturns,
                                volatility |-> IF EqualReturns(sorted) THEN "zero"
                                               ELSE "positive"]
    /\ vpc' = "returned"
    /\ UNCHANGED <<vin, replay, poll, lvars>>
    /\ UNCHANGED <<ovars, pvars, wvars, dvars, mvars, avars>>

\* a call of CalculateVolatility on any slice of prices
InitVolatility ==
    /\ InitOrchestrator
    /\ vault.liquid = VaultUnits
    /\ PlannerIdle
    /\ WalletIdle
    /\ ParametersIdle
    /\ ProcessRunning
    /\ AnalyzerIdle
    /\ vpc = "call"
    /\ prices \in PriceSlices
    /\ vin = prices
    /\ vret = <<>>
    /\ replay = <<>>
    /\ PollIdle
    /\ StoreIdle

NextVolatility ==
    \/ CalculateVolatility

SpecVolatility == InitVolatility /\ [][NextVolatility]_vars

\* ------------------------------------------------------------------------
\* VaultClient.waitForTransactionInclusion (internal/vault/live.go): the
\* polling for a broadcast transaction; durations in microseconds
\* ------------------------------------------------------------------------
maxAttempts == 30
baseDelay == 2000000
maxDelay == 30000000

TxHashes == {"", "A1"}

\* what signingClient.QueryTxByHash gives: an error, or with a nil error a nil
\* response, one with GasUsed = 0, one without events, or one with both
Answers == {"error", "nil", "noGas", "noEvents", "complete"}

\* txResponse != nil && txResponse.GasUsed > 0 && len(txResponse.Events) > 0
CompleteData(answer) == answer = "complete"

\* float64(baseDelay) * math.Pow(1.5, float64(attempt-1)): exact while it is below
\* maxDelay; once above maxDelay it only grows and is not computed further
TimesOneAndAHalf(delay) == IF delay > maxDelay THEN delay ELSE (delay * 3) \div 2

RECURSIVE Backoff(_)
Backoff(attempt) ==
    IF attempt = 1 THEN baseDelay
    ELSE CHOOSE product \in {TimesOneAndAHalf(before) : before \in {Backoff(attempt - 1)}} : TRUE

UncappedDelay(attempt) == Backoff(attempt)

\* if delay > maxDelay { delay = maxDelay }
CapDelay(delay) == IF delay > maxDelay THEN maxDelay ELSE delay

AttemptDelay(attempt) == CapDelay(Backoff(attempt))

PollOthersUnchanged ==
    /\ UNCHANGED <<ovars, pvars, wvars, dvars, mvars, avars, volvars, replay, lvars>>

\* the call: an empty hash is refused before any query
WaitStart ==
    /\ poll.pc = "call"
    /\ poll' = IF poll.txHash = ""
               THEN [poll EXCEPT !.pc = "returned", !.result = "error"]
               ELSE [poll EXCEPT !.pc = "sleep", !.attempt = 1]
    /\ PollOthersUnchanged

\* the head of the loop body: the delay of this attempt and time.Sleep(delay)
SleepBeforeQuery ==
    /\ poll.pc = "sleep"
    /\ poll.attempt <= maxAttempts
    /\ poll' = [poll EXCEPT !.pc = "query", !.delay = AttemptDelay(poll.attempt)]
    /\ PollOthersUnchanged

\* QueryTxByHash under its 10 s context and the rest of the loop body; after the
\* last attempt the loop ends and the error is returned
QueryTx ==
    /\ poll.pc = "query"
    /\ \E answer \in Answers :
         poll' = IF CompleteData(answer)
                 THEN [poll EXCEPT !.pc = "returned", !.answer = answer, !.result = "tx",
                                   !.queries = poll.queries + 1]
                 ELSE IF poll.attempt = maxAttempts
                 THEN [poll EXCEPT !.pc = "returned", !.answer = answer,
                                   !.result = "error", !.queries = poll.queries + 1]
                 ELSE [poll EXCEPT !.pc = "sleep", !.answer = answer,
                                   !.attempt = poll.attempt + 1,
                                   !.queries = poll.queries + 1]
    /\ PollOthersUnchanged

\* one call of waitForTransactionInclusion
InitPolling ==
    /\ InitOrchestrator
    /\ vault.liquid = VaultUnits
    /\ PlannerIdle
    /\ WalletIdle
    /\ ParametersIdle
    /\ ProcessRunning
    /\ AnalyzerIdle
    /\ VolatilityIdle
    /\ replay = <<>>
    /\ StoreIdle
    /\ \E txHash \in TxHashes :
         poll = [pc |-> "call", txHash |-> txHash, attempt |-> 0, delay |-> 0,
                 queries |-> 0, answer |-> "", result |-> ""]

NextPolling ==
    \/ WaitStart
    \/ SleepBeforeQuery
    \/ QueryTx

\* time.Sleep returns and the query is cut off by its context: every step is taken
SpecPolling == InitPolling /\ [][NextPolling]_vars /\ WF_vars(NextPolling)

\* ------------------------------------------------------------------------
\* state.SaveScoringParameters and state.LoadActiveScoringParameters called
\* one after another (internal/state/parameters_store.go), on the columns of
\* EnsureSchema; fractions in hundredths
\* ------------------------------------------------------------------------
MaxSaves == 2       \* successful calls of SaveScoringParameters

\* config.DefaultScoringParameters, on the fields followed here
DefaultScoringParameters ==
    [MaxPools |-> 5, MinLiquidUSDCBuffer |-> 50, ElysForcedAllocationMinimum |-> 10,
     ViableSwapReductionFactor |-> 90, ViableDepositReductionFactor |-> 80]

\* parameters after a tuning step
TunedScoringParameters ==
    [MaxPools |-> 3, MinLiquidUSDCBuffer |-> 20, ElysForcedAllocationMinimum |-> 20,
     ViableSwapReductionFactor |-> 50, ViableDepositReductionFactor |-> 50]

ScoringParameterChoices == {DefaultScoringParameters, TunedScoringParameters}

\* p := &types.ScoringParameters{}: the zero value of every field
ZeroScoringParameters ==
    [MaxPools |-> 0, MinLiquidUSDCBuffer |-> 0, ElysForcedAllocationMinimum |-> 0,
     ViableSwapReductionFactor |-> 0, ViableDepositReductionFactor |-> 0]

\* elys_forced_allocation_minimum DECIMAL(10, 8) NOT NULL DEFAULT 0.10
ForcedMinimumColumnDefault == 10

\* the row of the INSERT: the listed columns take the fields of params; the column
\* elys_forced_allocation_minimum is not listed and takes its default; the table has
\* no column for the two reduction factors
InsertedRow(params, configName, version, makeActive, currentTime) ==
    [config_name |-> configName, version |-> version, is_active |-> makeActive,
     activated_at |-> currentTime,
     max_pools |-> params.MaxPools,
     min_liquid_usdc_buffer |-> params.MinLiquidUSDCBuffer,
     elys_forced_allocation_minimum |-> ForcedMinimumColumnDefault]

\* row.Scan into p: the selected columns fill their fields, the other fields of p
\* keep the zero value
ScannedParameters(row) ==
    [ZeroScoringParameters EXCEPT !.MaxPools = row.max_pools,
                                  !.MinLiquidUSDCBuffer = row.min_liquid_usdc_buffer]

\* WHERE config_name = $1 AND is_active = TRUE ORDER BY activated_at DESC LIMIT 1
ActiveRowsByTime(configName) ==
    {r \in table : /\ r.config_name = configName
                   /\ r.is_active
                   /\ \A o \in table : (o.config_name = configName /\ o.is_active)
                                          => o.activated_at <= r.activated_at}

StoreOthersUnchanged ==
    /\ UNCHANGED <<ovars, pvars, wvars, dvars, mvars, avars, volvars, replay, poll>>

\* the whole of SaveScoringParameters: the UPDATE, the INSERT and the commit, or the
\* rollback when the INSERT hits uq_scoring_parameters_config_version
SaveScoringParameters ==
    /\ Len(saved) < MaxSaves
    /\ \E params \in ScoringParameterChoices, configName \in ConfigNames,
          version \in 1..MaxVersion, makeActive \in BOOLEAN :
         IF \E r \in table : r.config_name = configName /\ r.version = version
         THEN UNCHANGED <<table, saved>>
         ELSE LET deactivated == {IF makeActive /\ r.config_name = configName
                                  THEN [r EXCEPT !.is_active = FALSE] ELSE r : r \in table}
              IN /\ table' = deactivated
                              \cup {InsertedRow(params, configName, version, makeActive,
                                                Cardinality(table) + 1)}
                 /\ saved' = Append(saved, [params |-> params, configName |-> configName,
                                            version |-> version, makeActive |-> makeActive])
    /\ loaded' = <<>>
    /\ StoreOthersUnchanged

\* the whole of LoadActiveScoringParameters
LoadActiveScoringParameters ==
    /\ \E configName \in ConfigNames :
         IF ActiveRowsByTime(configName) = {}
         THEN loaded' = <<[configName |-> configName, err |-> TRUE,
                           params |-> ZeroScoringParameters]>>
         ELSE \E row \in ActiveRowsByTime(configName) :
                loaded' = <<[configName |-> configName, err |-> FALSE,
                             params |-> ScannedParameters(row)]>>
    /\ UNCHANGED <<table, saved>>
    /\ StoreOthersUnchanged

\* saves and loads of one process on an empty table
InitStore ==
    /\ InitOrchestrator
    /\ vault.liquid = VaultUnits
    /\ PlannerIdle
    /\ WalletIdle
    /\ ParametersIdle
    /\ ProcessRunning
    /\ AnalyzerIdle
    /\ VolatilityIdle
    /\ replay = <<>>
    /\ PollIdle
    /\ StoreIdle

NextStore ==
    \/ SaveScoringParameters
    \/ LoadActiveScoringParameters

SpecStore == InitStore /\ [][NextStore]_vars

\* ------------------------------------------------------------------------
\* Properties of the orchestrator
\* ------------------------------------------------------------------------
\* RunCycle is past the cycleSnapshot literal and has not returned
InCycle == pc \in {"fetch", "vault", "score", "alloc", "plan", "execW", "execD", "final", "done"}

\* C1: by the time a cycle ends exactly one snapshot of it has been persisted, also
\* when the cycle was aborted before execution (the database accepting the insert).
C1_OneSnapshotPerCycle ==
    (pc = "done" /\ ~hist.saveErr) => hist.saves = 1

\* C2: every cycle has incremented the persisted counter exactly once at its entry,
\* whatever the cycle does afterwards.
C2_CounterIncrementedOnce ==
    InCycle => hist.incs = 1

\* C3: the number given to a cycle is strictly greater than the number given to every
\* earlier cycle, restarts included.
C3_CycleNumberIncreasing ==
    earlierMax # -1 => lastNumber > earlierMax

\* C4: cycle_snapshots holds at most one row for any cycle_number.
C4_OneRowPerCycleNumber ==
    \A n \in BagToSet(snapshots) : CopiesIn(n, snapshots) <= 1

\* C5: a deposit transaction is submitted only when the plan has no withdrawal phase or
\* the withdrawal transaction of the same cycle was submitted before and ran successfully.
C5_DepositAfterSuccessfulWithdrawal ==
    \A i \in DOMAIN hist.calls :
        hist.calls[i].phase = "D" =>
            \/ plan.W = <<>>
            \/ \E j \in 1..(i - 1) : hist.calls[j].phase = "W" /\ hist.calls[j].executed

\* C6: at most one cycle is in progress at any time, and one is in progress exactly
\* while the loop goroutine is inside RunCycle, also when a tick is already waiting.
C6_NoConcurrentCycles ==
    /\ inProgress <= 1
    /\ (inProgress = 1) <=> (pc = "init" \/ InCycle)

\* C6 witness: a tick arrived while the cycle was running, the cycle has not returned
C6_TickWaitsForRunningCycle ==
    pc = "done" /\ tick /\ inProgress = 1 /\ started = 1

C8_FailureSnapshotKeepsHashes ==
    (pc = "done" /\ hist.failed \in {"W", "D"} /\ hist.saves > 0) =>
        /\ \A i \in DOMAIN hist.calls :
              hist.calls[i].hash # <<>> =>
                  \E k \in DOMAIN snap.hashes : snap.hashes[k] = hist.calls[i].hash
        /\ Len(snap.receipts) = (IF hist.failed = "D" THEN Len(plan.W) ELSE 0)

\* ------------------------------------------------------------------------
\* Properties of the planner
\* ------------------------------------------------------------------------
\* USD value (cents) the WithdrawLP subactions of a list withdraw, at TVL per share
RECURSIVE WithdrawnUSD(_)
WithdrawnUSD(actions) ==
    IF actions = <<>> THEN 0
    ELSE (IF Head(actions).Type = "WITHDRAW_LP"
          THEN ShareValue(Head(actions).PoolID, Head(actions).Amount) ELSE 0)
         + WithdrawnUSD(Tail(actions))

\* C9: when a simulator call made during planning returned an error, GenerateActionPlan
\* returns an error and neither list of actions.
C9_SimulatorErrorAbortsPlanning ==
    (ppc = "returned" /\ simErrs # {}) =>
        ret.err /\ ret.W = <<>> /\ ret.D = <<>>

\* C10: the WithdrawLP subactions of a returned plan withdraw at most
\* total_value * max_withdraw_pct_per_cycle / 100 in USD (plus the value of one share).
C10_WithdrawalsWithinCap ==
    (ppc = "returned" /\ ~ret.err) =>
        WithdrawnUSD(ret.W) <= MaxWithdrawalUSD(pin) + 2

\* C11: in the deposit phase of planning, once a DepositLP has been emitted the
\* simulated liquid USDC is at least min_liquid_usdc_buffer, whatever deposits were
\* accepted, at the asked or at the reduced amount.
C11_BufferKeptByDeposits ==
    (ppc \in {"deposit", "returned"} /\ depositActions # <<>>) =>
        simulatedLiquidUSDC >= pin.scoringParams.MinLiquidUSDCBuffer

\* a deposit was clamped down to exactly the buffer while another deposit is pending
C11_DepositClampedToBuffer ==
    /\ ppc = "deposit"
    /\ Len(depositActions) = 1
    /\ highLevelDeposits # {}
    /\ simulatedLiquidUSDC = pin.scoringParams.MinLiquidUSDCBuffer

\* the slippage limit of an emitted SubAction: the shielded limit for a smart-shielded
\* pool, the normal one otherwise (a swap goes through no LP pool)
SlippageLimitOf(a) ==
    IF a.Type = "SWAP" THEN pin.scoringParams.NormalPoolSlippagePercent
    ELSE getSlippageLimit(a.PoolID, pin.scoringParams)

\* C12: every SubAction of a plan returned by the planner, WithdrawLP, Swap or
\* DepositLP, has a simulated expected slippage no greater than its slippage limit.
C12_SlippageWithinLimit ==
    (ppc = "returned" /\ ~ret.err) =>
        \A a \in {ret.W[i] : i \in DOMAIN ret.W} \cup {ret.D[i] : i \in DOMAIN ret.D} :
            a.ExpectedSlippage <= SlippageLimitOf(a)

\* floor(expected * (1 - tolerance)), raised to 1 when that floor is 0
FloorMinOut(expected, tolerance) ==
    LET f == (expected * (100 - tolerance)) \div 100
    IN IF f = 0 THEN 1 ELSE f

\* C13: for a SubAction with expected outputs > 0 and a tolerance in [0,1), every
\* minimum output embedded in the message (swap min_amount, deposit share_amount_out,
\* each coin of the withdrawal min_amounts_out) is floor(expected * (1 - tolerance)),
\* raised to 1 when that floor is 0.
C13_MinOutIsFloor ==
    chainMsg # <<>> =>
        \A i \in DOMAIN chainMsg.MinOut :
            chainMsg.MinOut[i] = FloorMinOut(subAction.Expected[i], subAction.SlippageTolerancePct)

\* C14: after any sequence of SaveScoringParameters calls, concurrent ones included,
\* at most one scoring_parameters row per config name is active, and when a call with
\* makeActive = true has succeeded the active row of its config is the one it saved.
C14_OneActiveRowPerConfig ==
    /\ \A configName \in ConfigNames : Cardinality(ActiveRows(paramRows, configName)) <= 1
    /\ \A c \in Connections :
          (sessions[c].pc = "done" /\ ~sessions[c].err /\ sessions[c].makeActive) =>
              sessions[c].activeAfter = {sessions[c].paramsID}

\* C15: unless AVM_MODE is exactly "live" the process halts at startup: no vault
\* manager is created and no cycle is run, so nothing is broadcast.
C15_HaltsUnlessLive ==
    avmMode # "live" =>
        /\ pc \in {"main", "halted"}
        /\ vm = "none"
        /\ inProgress = 0
        /\ hist.calls = <<>>

\* the process was started with AVM_MODE=LIVE and has halted
C15_HaltedOnNearMiss == pc = "halted" /\ avmMode = "LIVE" /\ vm = "none"

\* C16: once the cancellation signal is raised the orchestrator starts no further
\* step: the position of the loop only moves back to the select statement, to the
\* end of RunLoop, or to a new process; no step of a cycle and no new cycle begins.
C16_NoStepAfterCancellation ==
    [][cancelled => (pc' = pc \/ pc' \in {"select", "stopped", "main"})]_vars

\* ------------------------------------------------------------------------
\* Properties of the analyzer
\* ------------------------------------------------------------------------
\* the allocator has returned an allocation map
AllocatorSucceeded == apc = "returned" /\ ~aret.err

\* the minimum the allocation of a pool is held to: forced_min for the forced pool,
\* min_alloc otherwise
RequiredMinimum(id) ==
    IF selection.elysPoolID # 0 /\ id = selection.elysPoolID
    THEN ain.params.ElysForcedAllocationMinimum
    ELSE ain.params.MinAllocation

\* every returned allocation is within [minimum - slack, max_alloc + slack]
AllocationsWithin(slack) ==
    \A id \in DOMAIN aret.alloc :
        /\ ~NormalizedLess(aret.alloc[id], aret.finalSum, RequiredMinimum(id) - slack)
        /\ ~NormalizedGreater(aret.alloc[id], aret.finalSum,
                              ain.params.MaxAllocation + slack)

C18_InfeasibleMinimumFails ==
    (apc = "returned" /\ Len(selection.ids) * ain.params.MinAllocation > One) =>
        aret.err /\ aret.is = "ErrAllocationImpossible"

\* the single selected pool is the forced pool, max_pools = 1
SingleForcedPool ==
    /\ apc = "returned"
    /\ ain.params.MaxPools = 1
    /\ selection.ids = <<selection.elysPoolID>>

\* the allocator returned the map {pool -> 1.0}
ReturnedWholeToForcedPool ==
    /\ ~aret.err
    /\ DOMAIN aret.alloc = {selection.elysPoolID}
    /\ aret.alloc[selection.elysPoolID].num
           = aret.alloc[selection.elysPoolID].den * aret.finalSum

\* C19 (as stated): with max_pools = 1 and the forced pool as the single selected pool,
\* the allocator returns {pool -> 1.0} if and only if 1.0 <= max_alloc, else it fails.
C19_SingleForcedPoolGetsAll ==
    SingleForcedPool => (ReturnedWholeToForcedPool <=> One <= ain.params.MaxAllocation)

\* C19 (amended): the same for a pool with a strictly positive score; with a
\* non-positive score the allocator fails whatever max_alloc is.
C19_SinglePositiveForcedPoolGetsAll ==
    SingleForcedPool =>
        IF ain.scores[selection.elysPoolID] > 0
        THEN ReturnedWholeToForcedPool <=> One <= ain.params.MaxAllocation
        ELSE aret.err

\* the forced pool alone was given everything
C19_WholeToForcedPool ==
    SingleForcedPool /\ ReturnedWholeToForcedPool /\ ain.params.MaxAllocation = One

\* C20: when a scored pool contains the forced asset, the selection contains the
\* highest-scoring such pool and reports it as the forced pool; when that pool was not
\* in the top max_pools, the last (lowest-scoring) member of the top is the one
\* replaced; the selection never has more than max_pools members.
C20_ForcedPoolSelected ==
    (apc # "select" /\ ain.elys # {}) =>
        /\ selection.elysPoolID \in ain.elys
        /\ \A q \in ain.elys : ain.scores[selection.elysPoolID] >= ain.scores[q]
        /\ selection.elysPoolID \in Range(selection.ids)
        /\ Len(selection.ids) <= ain.params.MaxPools
        /\ \A i, j \in DOMAIN selection.top :
              i < j => ain.scores[selection.top[i]] >= ain.scores[selection.top[j]]
        /\ \A p \in AnalyzerPools \ Range(selection.top) :
              ain.scores[p] <= ain.scores[selection.top[Len(selection.top)]]
        /\ IF selection.elysPoolID \in Range(selection.top)
           THEN selection.ids = selection.top
           ELSE /\ Len(selection.ids) = Len(selection.top)
                /\ Range(selection.ids) =
                       (Range(selection.top) \ {selection.top[Len(selection.top)]})
                           \cup {selection.elysPoolID}

\* the forced pool was outside the top and replaced its lowest-scoring member, while
\* another pool holding the forced asset scores lower
C20_ForcedPoolEvictedLowest ==
    /\ apc = "validate"
    /\ selection.elysPoolID \notin Range(selection.top)
    /\ selection.elysPoolID \in Range(selection.ids)
    /\ \E q \in ain.elys : ain.scores[q] < ain.scores[selection.elysPoolID]

\* C21: a scored pool whose score is NaN or +/-Inf is left out of the selection and the
\* selection is made over the other pools; its presence does not fail the selection
C21_NonFinitePoolExcluded ==
    (apc # "select" /\ ain.nonFinite # {} /\ ain.nonFinite # AnalyzerPools)
        => /\ ~selection.err
           /\ selection.ids # <<>>
           /\ Range(selection.ids) \cap ain.nonFinite = {}

\* C22: the analyzer and planner functions leave their input arguments, slices
\* included, as they were when they return, on success and on failure; here the prices
\* slice of CalculateVolatility
C22_InputsUnchanged ==
    vpc = "returned" => prices = vin

\* C27: CalculateVolatility fails with ErrInsufficientData whenever fewer than two log
\* returns remain after the pairs with a price <= 0 are dropped
C27_FewReturnsFail ==
    (vpc = "returned" /\ Cardinality(UsablePairs(SortByTimestamp(vin))) < 2)
        => vret.err /\ vret.is = "ErrInsufficientData"

\* GenerateActionPlan returned two empty lists and RunCycle has returned
EmptyPlanReturned ==
    /\ pc = "done"
    /\ hist.failed = "none"
    /\ snap.targets # NoTargets
    /\ plan.W = <<>>
    /\ plan.D = <<>>

\* the vault holds one position and the target allocation is that position: the share
\* of its pool is the pool's target and no other pool has a target
SinglePositionAtTarget ==
    \E p \in Pools :
        /\ snap.initial_positions[p].value > 0
        /\ snap.initial_positions[p].pct = snap.targets[p]
        /\ \A q \in Pools \ {p} : /\ snap.initial_positions[q].value = 0
                                   /\ snap.targets[q] = 0

\* C23: when the planner returns two empty lists the executor is not called in that
\* cycle and the snapshot has the initial state as final state, a net return of 0, and
\* an allocation efficiency of 100 when the single position matches its target
C23_EmptyPlanRecordsNoop ==
    EmptyPlanReturned =>
        /\ hist.calls = <<>>
        /\ snap.final_value = snap.initial_value
        /\ snap.final_liquid = snap.initial_liquid
        /\ snap.final_positions = snap.initial_positions
        /\ snap.net_return = 0
        /\ snap.hashes = <<>>
        /\ (SinglePositionAtTarget => snap.efficiency = 100)

C23_NoopAtTargetRecorded ==
    /\ EmptyPlanReturned
    /\ SinglePositionAtTarget
    /\ hist.saves = 1
    /\ snap.efficiency = 100

\* DetermineTargetAllocations returns from the constraint loop or from what follows it
ReturnsAfterLoop == apc \in {"iterate", "final"} /\ apc' = "returned"

\* the loop has used its iterations and the last one still locked a pool
NotConvergedAtBound == apc = "iterate" /\ iteration = maxAllocationIterations

ConvergenceError ==
    aret.err /\ aret.message = "allocation constraint enforcement failed to converge"

InSearch == ppc = "swap" /\ swapTry.denom # ""

\* the Swap SubActions of a list that spend the denom
SwapsOf(actions, denom) ==
    {i \in DOMAIN actions : actions[i].Type = "SWAP" /\ actions[i].Denom = denom}

\* C25: the swap search of a denom of the consolidation map makes at most 20 swap
\* simulations, each attempt that is not within the limit is followed by the amount
\* times the reduction factor (to the nearest base unit); a search that ends without an
\* attempt within the limit adds no Swap for the denom, and the planning goes on with
\* the other denoms and the deposit phase
C25_SwapSearchBoundedAndSkipped ==
    [][/\ swapTry'.retry <= maxRetries
       /\ (InSearch /\ InSearch') =>
              /\ swapTry.retry < maxRetries
              /\ swapTry'.retry = swapTry.retry + 1
              /\ swapTry'.denom = swapTry.denom
              /\ LET factor == pin.scoringParams.ViableSwapReductionFactor
                 IN 2 * Abs(swapTry'.amount * factor.den - swapTry.amount * factor.num)
                        <= factor.den
              /\ withdrawalActions' = withdrawalActions
       /\ (InSearch /\ ~InSearch') =>
              /\ ppc' = "swap"
              /\ swapTry'.todo = swapTry.todo
              /\ depositActions' = depositActions
              /\ IF swapTry.retry >= maxRetries \/ swapTry.amount = 0
                 THEN withdrawalActions' = withdrawalActions
                 ELSE /\ SwapsOf(withdrawalActions, swapTry.denom) = {}
                      /\ Len(withdrawalActions') = Len(withdrawalActions) + 1
                      /\ SubSeq(withdrawalActions', 1, Len(withdrawalActions))
                             = withdrawalActions
                      /\ LET a == withdrawalActions'[Len(withdrawalActions')]
                         IN /\ a.Type = "SWAP"
                            /\ a.Denom = swapTry.denom
                            /\ a.Amount = swapTry.amount
                            /\ a.ExpectedSlippage <= pin.scoringParams.NormalPoolSlippagePercent
       /\ ppc = "swap" => ppc' \in {"swap", "deposit"}]_vars

\* the search of one denom used its 20 attempts and no Swap was emitted for it, the
\* other denom was swapped, and the plan was returned with a deposit
C25_DenomSkippedPlanContinues ==
    /\ ppc = "returned"
    /\ ~ret.err
    /\ swapTry.retry = maxRetries
    /\ \E skipped \in Denoms, swapped \in Denoms :
         /\ tempNonUSDCAssets[skipped] > 0
         /\ SwapsOf(ret.W, skipped) = {}
         /\ SwapsOf(ret.W, swapped) # {}
    /\ ret.D # <<>>

\* C30: with the same arguments and a deterministic simulator GenerateActionPlan returns
\* the same two ordered SubAction lists on every call, whatever the order in which the
\* maps are iterated and the ties between equal deltas are broken
C30_SameListsOnEveryCall ==
    (ppc = "returned" /\ replay # <<>>) => ret = replay[1]


\* the delay min(2 s * 1.5^(k-1), 30 s) before attempt k, in microseconds
ClaimedDelay(k) ==
    IF k <= 7 THEN <<2000000, 3000000, 4500000, 6750000, 10125000, 15187500, 22781250>>[k]
    ELSE 30000000

LastActiveSave(configName) ==
    LET made == {i \in 1..Len(saved) : saved[i].configName = configName /\ saved[i].makeActive}
    IN IF made = {} THEN <<>>
       ELSE <<saved[CHOOSE i \in made : \A j \in made : j <= i].params>>

\* C28: LoadActiveScoringParameters returns, for a config that was saved as active,
\* parameters equal field for field to those of the most recent such save (the
\* forced minimum allocation and the two reduction factors included)
C28_LoadReturnsLastActiveSave ==
    (loaded # <<>> /\ LastActiveSave(loaded[1].configName) # <<>>) =>
        /\ ~loaded[1].err
        /\ loaded[1].params = LastActiveSave(loaded[1].configName)[1]


\* the preconditions of the allocator on the call being followed: valid constraints,
\* the feasibility gate (min_total <= 1 and 1/N <= max_alloc), forced_min <= max_alloc,
\* and every selected score strictly positive
AllocatorPreconditions ==
    LET params == ain.params
        ids == Range(selection.ids)
        numSelected == Len(selection.ids)
        minTotal == IF selection.elysPoolID \in ids /\ selection.elysPoolID # 0
                    THEN params.ElysForcedAllocationMinimum
                             + (numSelected - 1) * params.MinAllocation
                    ELSE numSelected * params.MinAllocation
    IN /\ numSelected > 0
       /\ params.MinAllocation >= 0
       /\ params.MaxAllocation > 0
       /\ params.MinAllocation <= params.MaxAllocation
       /\ minTotal <= One
       /\ One <= params.MaxAllocation * numSelected
       /\ params.ElysForcedAllocationMinimum <= params.MaxAllocation
       /\ \A id \in ids : ain.scores[id] > 0

\* C29: when the allocator's preconditions hold, DetermineTargetAllocations returns
\* an allocation map and no error
C29_PreconditionsGiveAllocation ==
    (apc = "returned" /\ ~selection.err /\ aret # <<>> /\ AllocatorPreconditions)
        => ~aret.err

====
